---- MODULE Spec2Model ----
(***************************************************************************)
(* MingNote front end: the project tree (Tree.tsx), the shared valtio      *)
(* store (store.ts), project open/create (App.tsx) and the search panel    *)
(* (Search.tsx), with the persistence engine behind the ipc wrappers.      *)
(*                                                                         *)
(* Encoding.  Ids and paths are strings; "" is the empty id / empty path   *)
(* of the store (falsy in the code).  NULL stands for the JavaScript null  *)
(* of parentId / folderId and of a cancelled prompt.  Names and titles are *)
(* sequences of one-character strings, so that trim() and localeCompare()  *)
(* are computed and not assumed.                                           *)
(***************************************************************************)
EXTENDS Integers, Sequences, FiniteSets, TLC

\* ------------------------------------------------------------------ bounds
\* buildTree inputs: at most this many folders / documents / characters,
\* and at most MaxNodes rows over the three lists together.
MaxFolders == 2
MaxDocs == 2
MaxChars == 2
MaxNodes == 4

\* The application: a handler or an editor call starts while fewer than
\* MaxOps async calls are in flight (the handlers the user started and the
\* refreshes Tree's effect started), of which at most MaxHandlers are tree
\* handlers the user started; MaxIds ids for the engine to allocate.  A
\* change of the project path starts a refresh beside the calls in flight
\* while fewer than MaxRefreshes refreshes are: MaxSlots calls in all.
MaxOps == 2
MaxHandlers == 1
MaxIds == 1
MaxRefreshes == 1
MaxSlots == 3

VARIABLES
    projectPath,      \* state.projectPath
    currentDocId,     \* state.currentDocId
    currentCharId,    \* state.currentCharId
    folders,          \* state.folders, and Tree's local folders (set together)
    docs,             \* state.docs, and Tree's local docs
    characters,       \* state.characters, and Tree's local characters
    rootNodes,        \* Tree's useMemo(buildTree(folders, docs, characters))
    memo,             \* "stale" until rootNodes is computed for the lists
    expanded,         \* Tree's expanded: the folder ids mapped to true
    confirmOpen,      \* Tree's confirmOpen
    pendingFolderId,  \* Tree's pendingFolderId
    searchQ,          \* state.search.q
    searchResults,    \* state.search.results (the ids, in order)
    ops,              \* the async handlers suspended at an await, by slot
    db,               \* the persistence engine's rows, by project path
    nextId,           \* the engine's id allocation
    event,            \* the handler step taken last (history)
    editor,           \* state.editor: md and lastSaved
    charEditor,       \* state.charEditor: the profile fields and lastSaved
    timer,            \* Editor's interval: the ticks since it was armed
    charTimer,        \* CharacterEditor's interval, Unarmed while unmounted
    armed,            \* the window's intervals of each view, and each view's timer ref
    bodies,           \* the engine's document bodies, by document id
    profiles,         \* the engine's character profiles, by character id
    mdOf,             \* the document editor.md was loaded from or typed for (history)
    sinceFlush        \* the ticks since a document flush was last due to start (history)

\* The editor pane and the bodies and profiles the engine keeps for it.
editorVars == <<editor, charEditor, timer, charTimer, armed, bodies, profiles,
                mdOf, sinceFlush>>

vars == <<projectPath, currentDocId, currentCharId, folders, docs, characters,
          rootNodes, memo, expanded, confirmOpen, pendingFolderId, searchQ,
          searchResults, ops, db, nextId, event, editorVars>>

\* ------------------------------------------------------- values and helpers
NULL == "null"
ROOT_KEY == "__ROOT__"

FolderId(i) == "f" \o ToString(i)
DocId(i) == "d" \o ToString(i)
CharId(i) == "c" \o ToString(i)

\* The project directories on disk.
Projects == {"p1", "p2"}

\* A listTree result with no rows.
EmptyTree == [folders |-> <<>>, docs |-> <<>>, characters |-> <<>>]

\* The profile fields of a character with nothing filled in.
NoProfile == [age |-> <<>>, nationality |-> <<>>, sexuality |-> <<>>,
              height |-> <<>>, attributes |-> <<>>, image |-> <<>>]

\* A slot with no handler in it.
NoOp == [h |-> "idle", pc |-> "", st |-> "", path |-> "", arg |-> "",
         req |-> "", name |-> <<>>, rid |-> "", tree |-> EmptyTree,
         rows |-> <<>>, data |-> NoProfile]

\* Texts are sequences of characters; the bodies the engine holds at the start.
DocIds == {"d1", "d2"}
CharIds == {"c1", "c2"}
InitialBodies == [d \in DocIds |-> IF d = "d1" THEN <<"A">> ELSE <<"B">>]
InitialProfiles ==
    [c \in CharIds |-> [NoProfile EXCEPT !.age = IF c = "c1" THEN <<"A">>
                                                 ELSE <<"B">>]]

\* charTimer while CharacterEditor is not mounted.
Unarmed == 0 - 1

\* A view's intervals: live counts the intervals of the view the window has
\* armed, ref tells whether the view's timer.current names one of them.
NoInterval == [live |-> 0, ref |-> FALSE]

\* if (timer.current) window.clearInterval(timer.current)
clearInterval(v) ==
    IF v.ref THEN [live |-> v.live - 1, ref |-> FALSE] ELSE v

\* timer.current = window.setInterval(...)
setInterval(v) == [live |-> v.live + 1, ref |-> TRUE]

\* The body of the autosave effect, and the cleanup it returns.
autosaveEffect(v) == setInterval(clearInterval(v))

autosaveCleanup(v) == clearInterval(v)

\* Variant: a changed dependency arms a new interval and clears none.
rearm_NoClear(v) == setInterval(v)

\* A changed dependency: React runs the cleanup of the last run, then the
\* effect again.
rearm(v) == autosaveEffect(autosaveCleanup(v))

\* The editor state as the store constructs it; Editor's effect arms its
\* interval at the first render; CharacterEditor is not mounted.
EditorInit ==
    /\ editor = [md |-> <<>>, lastSaved |-> 0]
    /\ charEditor = [profile |-> NoProfile, lastSaved |-> 0]
    /\ timer = 0
    /\ charTimer = Unarmed
    /\ armed = [doc |-> autosaveEffect(NoInterval), char |-> NoInterval]
    /\ bodies = InitialBodies
    /\ profiles = InitialProfiles
    /\ mdOf = ""
    /\ sinceFlush = 0

\* A step of the tree view or of the project buttons, seen without the
\* editor pane.
EditorIdle == UNCHANGED editorVars

\* window.prompt returns null when cancelled; NullName stands for that null.
NullName == <<NULL>>

\* event names the handler step taken last: for a click on a tree row, arg is
\* the id and at the competing selection before the click; for the head of a
\* create handler, out tells where it stopped; for a create that ran to its
\* end, arg is the new id and at the parent folder; for a delete that was
\* acknowledged, arg is the id the handler was called with and at the
\* character selected before.  out is "alert" where the handler's catch
\* block shows an alert, and "rejected" where a rejection leaves the handler
\* uncaught.
NoEvent == [name |-> "init", arg |-> "", at |-> "", out |-> ""]

Map(s, F(_)) == [i \in 1..Len(s) |-> F(s[i])]

\* Collation weight of a character: the space sorts before the letters.
Weight(ch) == CASE ch = " " -> 0 [] ch = "A" -> 1 [] ch = "B" -> 2

\* String.prototype.localeCompare on the model's alphabet: -1, 0 or 1.
RECURSIVE localeCompare(_, _)
localeCompare(a, b) ==
    IF a = <<>> /\ b = <<>> THEN 0
    ELSE IF a = <<>> THEN -1
    ELSE IF b = <<>> THEN 1
    ELSE IF Weight(Head(a)) < Weight(Head(b)) THEN -1
    ELSE IF Weight(Head(a)) > Weight(Head(b)) THEN 1
    ELSE localeCompare(Tail(a), Tail(b))

\* ---------------------------------------------------------------- buildTree
\* Variant: every row is filed under the root key.
keyOf_Root(id) == ROOT_KEY

keyOf(id) == IF id = NULL THEN ROOT_KEY ELSE id

\* childrenByParent[key], docsByFolder[key], charsByFolder[key] (|| []):
\* the rows of the bucket, in input order.
childrenByParent(fs, key) ==
    SelectSeq(fs, LAMBDA f : keyOf(f.parentId) = key)

docsByFolder(ds, key) ==
    SelectSeq(ds, LAMBDA d : keyOf(d.folderId) = key)

\* Variant: the bucket test is lost and every character lands in every bucket.
charsByFolder_Any(cs, key) == cs

charsByFolder(cs, key) ==
    SelectSeq(cs, LAMBDA c : keyOf(c.folderId) = key)

docNode(d) == [kind |-> "doc", id |-> d.id, title |-> d.title]

charNode(c) == [kind |-> "character", id |-> c.id, name |-> c.name]

\* The outcome of a makeFolderNode call that never returns: a folder repeats
\* on the call path, so the recursion has no end (the engine's call stack
\* overflows).
Overflow == [kind |-> "overflow"]

\* depth counts the fs on the call path; a path longer than the folder
\* list repeats a folder, and the same call then recurs for ever.
RECURSIVE makeFolderNode(_, _, _, _, _)
makeFolderNode(f, fs, ds, cs, depth) ==
    IF depth > Len(fs) THEN Overflow
    ELSE LET sub == [i \in 1..Len(childrenByParent(fs, f.id)) |->
                       makeFolderNode(childrenByParent(fs, f.id)[i],
                                      fs, ds, cs, depth + 1)]
         IN IF \E i \in 1..Len(sub) : sub[i] = Overflow THEN Overflow
            ELSE [kind |-> "folder", id |-> f.id, name |-> f.name,
                  children |-> sub \o Map(docsByFolder(ds, f.id), docNode)
                                   \o Map(charsByFolder(cs, f.id), charNode)]

nodeLabel(n) == IF n.kind = "doc" THEN n.title ELSE n.name

\* Variant: a comparator on the label alone, without the folders-first test.
compareNodes_ByLabel(a, b) == localeCompare(nodeLabel(a), nodeLabel(b))

\* The comparator handed to Array.prototype.sort.
compareNodes(a, b) ==
    IF a.kind # b.kind /\ a.kind = "folder" THEN -1
    ELSE IF a.kind # b.kind /\ b.kind = "folder" THEN 1
    ELSE localeCompare(nodeLabel(a), nodeLabel(b))

\* Array.prototype.sort is stable: x goes after every element that does not
\* compare greater than it.
RECURSIVE insertNode(_, _)
insertNode(x, s) ==
    IF s = <<>> THEN <<x>>
    ELSE IF compareNodes(s[Len(s)], x) <= 0 THEN Append(s, x)
    ELSE Append(insertNode(x, SubSeq(s, 1, Len(s) - 1)), s[Len(s)])

RECURSIVE sortNodes(_)
sortNodes(nodes) ==
    IF nodes = <<>> THEN <<>>
    ELSE insertNode(nodes[Len(nodes)], sortNodes(SubSeq(nodes, 1, Len(nodes) - 1)))

RECURSIVE sortDeep(_)
sortDeep(n) ==
    IF n.kind = "folder"
    THEN [n EXCEPT !.children = Map(sortNodes(n.children), sortDeep)]
    ELSE n

\* Variant: every folder is taken for a root, whatever its parentId.
rootFolders_All(fs, ds, cs) ==
    Map(fs, LAMBDA f : makeFolderNode(f, fs, ds, cs, 1))

rootFolders(fs, ds, cs) ==
    Map(childrenByParent(fs, ROOT_KEY),
        LAMBDA f : makeFolderNode(f, fs, ds, cs, 1))

\* Variant: every document is taken for a root document.
rootDocs_All(ds) == Map(ds, docNode)

rootDocs(ds) == Map(docsByFolder(ds, ROOT_KEY), docNode)

rootChars(cs) == Map(charsByFolder(cs, ROOT_KEY), charNode)

\* <<Overflow>> when the call does not return.
buildTree(fs, ds, cs) ==
    IF \E i \in 1..Len(rootFolders(fs, ds, cs)) :
          rootFolders(fs, ds, cs)[i] = Overflow
    THEN <<Overflow>>
    ELSE Map(sortNodes(rootFolders(fs, ds, cs) \o rootDocs(ds)
                       \o rootChars(cs)),
             sortDeep)

\* ------------------------------------------------- buildTree on any rows
\* The rows listTree may hand to buildTree.  The schema declares ids as
\* primary keys and declares no foreign key on parent_id / folder_id, so ids
\* are unique within a list while a parent reference may name no folder or
\* close a cycle.  Row i of a list carries the i-th id of its kind; the id
\* FolderId(MaxFolders + 1) never names a folder.
Names == {<<"A">>, <<"B">>}

ParentRefs == {NULL} \cup {FolderId(i) : i \in 1..(MaxFolders + 1)}

FolderRows(n) ==
    {[i \in 1..n |-> [id |-> FolderId(i), name |-> r[i][1], parentId |-> r[i][2]]] :
        r \in [1..n -> Names \X ParentRefs]}

DocRows(n) ==
    {[i \in 1..n |-> [id |-> DocId(i), title |-> r[i][1], folderId |-> r[i][2]]] :
        r \in [1..n -> Names \X ParentRefs]}

CharRows(n) ==
    {[i \in 1..n |-> [id |-> CharId(i), name |-> r[i][1], folderId |-> r[i][2]]] :
        r \in [1..n -> Names \X ParentRefs]}

InitTree ==
    /\ \E nf \in 0..MaxFolders, nd \in 0..MaxDocs, nc \in 0..MaxChars :
          /\ nf + nd + nc <= MaxNodes
          /\ folders \in FolderRows(nf)
          /\ docs \in DocRows(nd)
          /\ characters \in CharRows(nc)
    /\ rootNodes = <<>>
    /\ memo = "stale"
    /\ projectPath = ""
    /\ currentDocId = ""
    /\ currentCharId = ""
    /\ expanded = {}
    /\ confirmOpen = FALSE
    /\ pendingFolderId = NULL
    /\ searchQ = ""
    /\ searchResults = <<>>
    /\ ops = [s \in 1..MaxSlots |-> NoOp]
    /\ db = [p \in Projects |-> EmptyTree]
    /\ nextId = 1
    /\ event = NoEvent
    /\ EditorInit

\* Variant: the buckets are filled by taking the rows out of the input
\* lists, which are left empty.
Render_Consume ==
    /\ memo = "stale"
    /\ rootNodes' = buildTree(folders, docs, characters)
    /\ memo' = "fresh"
    /\ folders' = <<>>
    /\ docs' = <<>>
    /\ characters' = <<>>
    /\ UNCHANGED <<projectPath, currentDocId, currentCharId, expanded,
                   confirmOpen, pendingFolderId, searchQ, searchResults, ops,
                   db, nextId, event>>

\* The render after the lists changed: useMemo recomputes rootNodes.
Render ==
    /\ memo = "stale"
    /\ rootNodes' = buildTree(folders, docs, characters)
    /\ memo' = "fresh"
    /\ UNCHANGED <<projectPath, currentDocId, currentCharId, folders, docs,
                   characters, expanded, confirmOpen, pendingFolderId, searchQ,
                   searchResults, ops, db, nextId, event>>

NextTree == Render /\ EditorIdle

SpecTree == InitTree /\ [][NextTree]_vars

\* ------------------------------------------------------------ the tree view
\* The nodes TreeList renders: a folder's children only while it is open.
RECURSIVE visibleNodes(_, _)
visibleNodes(nodes, exp) ==
    UNION {IF nodes[i].kind = "folder"
           THEN {nodes[i]} \cup (IF nodes[i].id \in exp
                                 THEN visibleNodes(nodes[i].children, exp)
                                 ELSE {})
           ELSE IF nodes[i].kind = "overflow" THEN {} ELSE {nodes[i]}
           : i \in 1..Len(nodes)}

VisibleIds(kind) ==
    {n.id : n \in {m \in visibleNodes(rootNodes, expanded) : m.kind = kind}}

Slots == 1..MaxSlots

FreeSlots == {s \in Slots : ops[s].h = "idle"}

FirstFree == CHOOSE s \in FreeSlots : \A t \in FreeSlots : s <= t

\* A handler suspended at the await of ipc call pc.
Call(h, pc, path, arg, req, name) ==
    [h |-> h, pc |-> pc, st |-> "pending", path |-> path, arg |-> arg,
     req |-> req, name |-> name, rid |-> "", tree |-> EmptyTree,
     rows |-> <<>>, data |-> NoProfile]

\* The calls in flight.
Busy == Cardinality(Slots \ FreeSlots)

\* The user may start another async handler.
CanStart ==
    /\ Busy < MaxOps
    /\ Cardinality({s \in Slots : ops[s].h \notin {"idle", "refresh"}}) < MaxHandlers

\* The user may press a project button: the buttons stay enabled while a
\* handler of the tree is awaiting.
CanStartOpen ==
    /\ Busy < MaxOps
    /\ Cardinality({s \in Slots : ops[s].h = "createOrOpen"}) < MaxHandlers

\* Tree's effect may start another refresh.
CanRefresh ==
    /\ FreeSlots # {}
    /\ Cardinality({s \in Slots : ops[s].h = "refresh"}) < MaxRefreshes

\* The ids the engine has yet to allocate bound the creates in flight.
CreatesInFlight ==
    Cardinality({s \in Slots : ops[s].pc \in {"newFolder", "newDoc", "newCharacter"}
                               /\ ops[s].st = "pending"})

CanCreate == nextId + CreatesInFlight <= MaxIds

\* ----------------------------------------------------- selection and toggle
\* Variant: opening a folder closes every other one.
toggle_Accordion(id) ==
    /\ id \in VisibleIds("folder")
    /\ expanded' = IF id \in expanded THEN expanded \ {id} ELSE {id}
    /\ event' = [name |-> "toggle", arg |-> "", at |-> "", out |-> "done"]
    /\ UNCHANGED <<projectPath, currentDocId, currentCharId, folders, docs,
                   characters, rootNodes, memo, confirmOpen, pendingFolderId,
                   searchQ, searchResults, ops, db, nextId>>

\* setExpanded(prev => ({ ...prev, [id]: !prev[id] }))
toggle(id) ==
    /\ id \in VisibleIds("folder")
    /\ expanded' = IF id \in expanded THEN expanded \ {id} ELSE expanded \cup {id}
    /\ event' = [name |-> "toggle", arg |-> "", at |-> "", out |-> "done"]
    /\ UNCHANGED <<projectPath, currentDocId, currentCharId, folders, docs,
                   characters, rootNodes, memo, confirmOpen, pendingFolderId,
                   searchQ, searchResults, ops, db, nextId>>

\* Variant: the document is selected and the character selection is kept.
selectDoc_KeepChar(id) ==
    /\ currentDocId' = id
    /\ UNCHANGED currentCharId

selectDoc(id) ==
    /\ currentDocId' = id
    /\ currentCharId' = ""

selectChar(id) ==
    /\ currentCharId' = id
    /\ currentDocId' = ""

\* A click on a document row of the tree.
onSelectDoc(id) ==
    /\ id \in VisibleIds("doc")
    /\ selectDoc(id)
    /\ event' = [name |-> "selectDoc", arg |-> id, at |-> currentCharId, out |-> "done"]
    /\ UNCHANGED <<projectPath, folders, docs, characters, rootNodes, memo,
                   expanded, confirmOpen, pendingFolderId, searchQ,
                   searchResults, ops, db, nextId>>

\* A click on a character row of the tree.
onSelectChar(id) ==
    /\ id \in VisibleIds("character")
    /\ selectChar(id)
    /\ event' = [name |-> "selectChar", arg |-> id, at |-> currentDocId, out |-> "done"]
    /\ UNCHANGED <<projectPath, folders, docs, characters, rootNodes, memo,
                   expanded, confirmOpen, pendingFolderId, searchQ,
                   searchResults, ops, db, nextId>>

\* ------------------------------------------------------------------ creates
RawInputs == {NullName, <<>>, <<" ">>, <<" ", "A", " ">>}

RECURSIVE trimStart(_)
trimStart(t) ==
    IF t # <<>> /\ Head(t) = " " THEN trimStart(Tail(t)) ELSE t

RECURSIVE trimEnd(_)
trimEnd(t) ==
    IF t # <<>> /\ t[Len(t)] = " " THEN trimEnd(SubSeq(t, 1, Len(t) - 1)) ELSE t

trim(t) == trimEnd(trimStart(t))

\* Variant: the prompt's answer is used untrimmed.
promptName_NoTrim(raw) ==
    IF raw = NullName THEN NullName
    ELSE IF raw = <<>> THEN NullName
    ELSE raw

promptName(raw) ==
    IF raw = NullName THEN NullName
    ELSE IF trim(raw) = <<>> THEN NullName
    ELSE trim(raw)

\* Variant: the head of a create handler without its projectPath test.
createRun_NoGuard(h, pc, parent, raw) ==
    /\ IF promptName(raw) = NullName
       THEN /\ event' = [name |-> "create", arg |-> "", at |-> "", out |-> "noName"]
            /\ UNCHANGED ops
       ELSE /\ CanStart
            /\ CanCreate
            /\ ops' = [ops EXCEPT ![FirstFree] =
                          Call(h, pc, projectPath, parent, parent,
                               promptName(raw))]
            /\ event' = [name |-> "create", arg |-> "", at |-> "", out |-> "called"]
    /\ UNCHANGED <<projectPath, currentDocId, currentCharId, folders, docs,
                   characters, rootNodes, memo, expanded, confirmOpen,
                   pendingFolderId, searchQ, searchResults, db, nextId>>

\* The synchronous head of createFolder / createDoc / createCharacterTab, up
\* to the await of the ipc call pc, when window.prompt returns raw.  Without a
\* project the handler returns before the prompt and raw plays no part.
\* parent is null (the root menu) or the folder whose row opened the menu.
createRun(h, pc, parent, raw) ==
    /\ IF projectPath = ""
       THEN /\ event' = [name |-> "create", arg |-> "", at |-> "", out |-> "noProject"]
            /\ UNCHANGED ops
       ELSE IF promptName(raw) = NullName
       THEN /\ event' = [name |-> "create", arg |-> "", at |-> "", out |-> "noName"]
            /\ UNCHANGED ops
       ELSE /\ CanStart
            /\ CanCreate
            /\ ops' = [ops EXCEPT ![FirstFree] =
                          Call(h, pc, projectPath, parent, parent,
                               promptName(raw))]
            /\ event' = [name |-> "create", arg |-> "", at |-> "", out |-> "called"]
    /\ UNCHANGED <<projectPath, currentDocId, currentCharId, folders, docs,
                   characters, rootNodes, memo, expanded, confirmOpen,
                   pendingFolderId, searchQ, searchResults, db, nextId>>

createHead(h, pc, parent) == \E raw \in RawInputs : createRun(h, pc, parent, raw)

createFolder(parentId) == createHead("createFolder", "newFolder", parentId)

createDoc(folderId) == createHead("createDoc", "newDoc", folderId)

createCharacterTab(folderId) ==
    createHead("createCharacterTab", "newCharacter", folderId)

CreateHandlers == {"createFolder", "createDoc", "createCharacterTab"}

\* refresh, from its call to the await of listTree: no call without a project.
\* The caller's slot s then waits for listTree, or goes on at once.
refreshCall(s) ==
    [ops[s] EXCEPT !.pc = "listTree", !.st = "pending", !.path = projectPath,
                   !.tree = EmptyTree]

\* Variant: the parent's expand flag is flipped, not set.
expandParent_Flip(parent) ==
    expanded' = IF parent # NULL /\ parent # ""
                THEN (IF parent \in expanded THEN expanded \ {parent}
                      ELSE expanded \cup {parent})
                ELSE expanded

\* The expand step that ends a create: setExpanded(e => ({...e, [id]: true})).
expandParent(parent) ==
    expanded' = IF parent # NULL /\ parent # "" THEN expanded \cup {parent}
                ELSE expanded

\* What follows `await refresh()` in the create handler h.
createTail(h, id, parent) ==
    /\ IF h = "createDoc" THEN selectDoc(id)
       ELSE IF h = "createCharacterTab" THEN selectChar(id)
       ELSE UNCHANGED <<currentDocId, currentCharId>>
    /\ expandParent(parent)

\* The create call returned.
afterNew(s) ==
    /\ ops[s].h \in CreateHandlers
    /\ ops[s].pc \in {"newFolder", "newDoc", "newCharacter"}
    /\ ops[s].st # "pending"
    /\ IF ops[s].st = "err"
       THEN /\ ops' = [ops EXCEPT ![s] = NoOp]
            /\ event' = [name |-> ops[s].h, arg |-> "", at |-> "", out |-> "rejected"]
            /\ UNCHANGED <<currentDocId, currentCharId, expanded>>
       ELSE IF projectPath = ""
       THEN /\ createTail(ops[s].h, ops[s].rid, ops[s].arg)
            /\ ops' = [ops EXCEPT ![s] = NoOp]
            /\ event' = [name |-> ops[s].h, arg |-> ops[s].rid, at |-> ops[s].arg, out |-> "done"]
       ELSE /\ ops' = [ops EXCEPT ![s] = refreshCall(s)]
            /\ event' = [name |-> ops[s].h, arg |-> "", at |-> "", out |-> "refresh"]
            /\ UNCHANGED <<currentDocId, currentCharId, expanded>>
    /\ UNCHANGED <<projectPath, folders, docs, characters, rootNodes, memo,
                   confirmOpen, pendingFolderId, searchQ, searchResults, db,
                   nextId>>

\* Variant: only the folder list is replaced.
replaceEntities_FoldersOnly(t) ==
    /\ folders' = t.folders
    /\ rootNodes' = buildTree(t.folders, docs, characters)
    /\ memo' = "fresh"
    /\ UNCHANGED <<docs, characters>>

\* refresh after listTree resolved: the three lists are replaced, and the
\* next render recomputes rootNodes.
replaceEntities(t) ==
    /\ folders' = t.folders
    /\ docs' = t.docs
    /\ characters' = t.characters
    /\ rootNodes' = buildTree(t.folders, t.docs, t.characters)
    /\ memo' = "fresh"

\* listTree returned to the refresh awaited by a create handler.
afterCreateRefresh(s) ==
    /\ ops[s].h \in CreateHandlers
    /\ ops[s].pc = "listTree"
    /\ ops[s].st # "pending"
    /\ IF ops[s].st = "err"
       THEN /\ event' = [name |-> ops[s].h, arg |-> "", at |-> "", out |-> "rejectedRefresh"]
            /\ UNCHANGED <<currentDocId, currentCharId, folders, docs,
                           characters, rootNodes, memo, expanded>>
       ELSE /\ replaceEntities(ops[s].tree)
            /\ createTail(ops[s].h, ops[s].rid, ops[s].arg)
            /\ event' = [name |-> ops[s].h, arg |-> ops[s].rid, at |-> ops[s].arg, out |-> "done"]
    /\ ops' = [ops EXCEPT ![s] = NoOp]
    /\ UNCHANGED <<projectPath, confirmOpen, pendingFolderId, searchQ,
                   searchResults, db, nextId>>

\* listTree returned to the refresh started by the projectPath effect.
afterRefresh(s) ==
    /\ ops[s].h = "refresh"
    /\ ops[s].pc = "listTree"
    /\ ops[s].st # "pending"
    /\ IF ops[s].st = "err"
       THEN /\ event' = [name |-> "refresh", arg |-> "", at |-> "", out |-> "rejected"]
            /\ UNCHANGED <<folders, docs, characters, rootNodes, memo>>
       ELSE /\ replaceEntities(ops[s].tree)
            /\ event' = [name |-> "refresh", arg |-> "", at |-> "", out |-> "done"]
    /\ ops' = [ops EXCEPT ![s] = NoOp]
    /\ UNCHANGED <<projectPath, currentDocId, currentCharId, expanded,
                   confirmOpen, pendingFolderId, searchQ, searchResults, db,
                   nextId>>

\* ------------------------------------------------------------------ deletes
DeleteHandlers == {"actuallyDeleteFolder", "handleDeleteDoc", "handleDeleteCharacter"}

DeleteCalls == {"deleteFolderRecursive", "deleteDoc", "deleteCharacter"}

\* The ipc wrappers deleteFolderRecursive / deleteDoc / deleteCharacter
\* declare one parameter, absPath, and invoke the command with { absPath }:
\* the request carries the first argument and no entity id.
deleteRequest(h, pc, path, id) == Call(h, pc, path, id, NULL, <<>>)

requestDeleteFolder(folderId) ==
    /\ folderId \in VisibleIds("folder")
    /\ pendingFolderId' = folderId
    /\ confirmOpen' = TRUE
    /\ event' = [name |-> "requestDeleteFolder", arg |-> folderId, at |-> "", out |-> "done"]
    /\ UNCHANGED <<projectPath, currentDocId, currentCharId, folders, docs,
                   characters, rootNodes, memo, expanded, searchQ,
                   searchResults, ops, db, nextId>>

\* The synchronous head of actuallyDeleteFolder / handleDeleteDoc /
\* handleDeleteCharacter, up to the await of the ipc call pc.
deleteStart(h, pc, id) ==
    IF projectPath = ""
    THEN UNCHANGED ops
    ELSE /\ CanStart
         /\ ops' = [ops EXCEPT ![FirstFree] = deleteRequest(h, pc, projectPath, id)]

deleteHead(h, pc, id) ==
    /\ deleteStart(h, pc, id)
    /\ event' = [name |-> "delete", arg |-> "", at |-> "",
                 out |-> IF projectPath = "" THEN "noProject" ELSE "called"]

actuallyDeleteFolder(folderId) ==
    deleteStart("actuallyDeleteFolder", "deleteFolderRecursive", folderId)

\* Variant: the dialog's answer is not read, the delete runs on either.
onClose_Always(confirmed) ==
    /\ confirmOpen
    /\ confirmOpen' = FALSE
    /\ IF pendingFolderId # NULL /\ pendingFolderId # ""
       THEN actuallyDeleteFolder(pendingFolderId)
       ELSE UNCHANGED ops
    /\ pendingFolderId' = NULL
    /\ event' = [name |-> "onClose", arg |-> "", at |-> "",
                 out |-> IF confirmed THEN "confirm" ELSE "cancel"]
    /\ UNCHANGED <<projectPath, currentDocId, currentCharId, folders, docs,
                   characters, rootNodes, memo, expanded, searchQ,
                   searchResults, db, nextId>>

\* ConfirmDialog's onClose(confirmed); event.out records the button pressed.
onClose(confirmed) ==
    /\ confirmOpen
    /\ confirmOpen' = FALSE
    /\ IF confirmed /\ pendingFolderId # NULL /\ pendingFolderId # ""
       THEN actuallyDeleteFolder(pendingFolderId)
       ELSE UNCHANGED ops
    /\ pendingFolderId' = NULL
    /\ event' = [name |-> "onClose", arg |-> "", at |-> "",
                 out |-> IF confirmed THEN "confirm" ELSE "cancel"]
    /\ UNCHANGED <<projectPath, currentDocId, currentCharId, folders, docs,
                   characters, rootNodes, memo, expanded, searchQ,
                   searchResults, db, nextId>>

handleDeleteDoc(docId) ==
    /\ docId \in VisibleIds("doc")
    /\ deleteHead("handleDeleteDoc", "deleteDoc", docId)
    /\ UNCHANGED <<projectPath, currentDocId, currentCharId, folders, docs,
                   characters, rootNodes, memo, expanded, confirmOpen,
                   pendingFolderId, searchQ, searchResults, db, nextId>>

handleDeleteCharacter(charId) ==
    /\ charId \in VisibleIds("character")
    /\ deleteHead("handleDeleteCharacter", "deleteCharacter", charId)
    /\ UNCHANGED <<projectPath, currentDocId, currentCharId, folders, docs,
                   characters, rootNodes, memo, expanded, confirmOpen,
                   pendingFolderId, searchQ, searchResults, db, nextId>>

\* Variant: a folder delete clears the document selection only.
clearAfterDelete_DocOnly(h, id) ==
    IF h = "actuallyDeleteFolder"
    THEN currentDocId' = "" /\ UNCHANGED currentCharId
    ELSE IF h = "handleDeleteDoc"
    THEN /\ currentDocId' = IF currentDocId = id THEN "" ELSE currentDocId
         /\ UNCHANGED currentCharId
    ELSE /\ currentCharId' = IF currentCharId = id THEN "" ELSE currentCharId
         /\ UNCHANGED currentDocId

\* Variant: a document or character delete clears its selection whatever
\* is selected.
clearAfterDelete_Always(h, id) ==
    IF h = "actuallyDeleteFolder"
    THEN currentDocId' = "" /\ currentCharId' = ""
    ELSE IF h = "handleDeleteDoc"
    THEN currentDocId' = "" /\ UNCHANGED currentCharId
    ELSE currentCharId' = "" /\ UNCHANGED currentDocId

\* The selection writes between the delete call and refresh().
clearAfterDelete(h, id) ==
    IF h = "actuallyDeleteFolder"
    THEN currentDocId' = "" /\ currentCharId' = ""
    ELSE IF h = "handleDeleteDoc"
    THEN /\ currentDocId' = IF currentDocId = id THEN "" ELSE currentDocId
         /\ UNCHANGED currentCharId
    ELSE /\ currentCharId' = IF currentCharId = id THEN "" ELSE currentCharId
         /\ UNCHANGED currentDocId

\* Variant: the selection is cleared whether the delete call succeeded or not.
afterDelete_ClearOnError(s) ==
    /\ ops[s].h \in DeleteHandlers
    /\ ops[s].pc \in DeleteCalls
    /\ ops[s].st # "pending"
    /\ clearAfterDelete(ops[s].h, ops[s].arg)
    /\ IF ops[s].st = "err"
       THEN /\ ops' = [ops EXCEPT ![s] = NoOp]
            /\ event' = [name |-> ops[s].h, arg |-> "", at |-> "", out |-> "alert"]
       ELSE /\ ops' = [ops EXCEPT ![s] = refreshCall(s)]
            /\ event' = [name |-> ops[s].h, arg |-> ops[s].arg, at |-> currentCharId, out |-> "refresh"]
    /\ UNCHANGED <<projectPath, folders, docs, characters, rootNodes, memo,
                   expanded, confirmOpen, pendingFolderId, searchQ,
                   searchResults, db, nextId>>

\* The delete call returned.
afterDelete(s) ==
    /\ ops[s].h \in DeleteHandlers
    /\ ops[s].pc \in DeleteCalls
    /\ ops[s].st # "pending"
    /\ IF ops[s].st = "err"
       THEN /\ ops' = [ops EXCEPT ![s] = NoOp]
            /\ event' = [name |-> ops[s].h, arg |-> "", at |-> "", out |-> "alert"]
            /\ UNCHANGED <<currentDocId, currentCharId>>
       ELSE /\ clearAfterDelete(ops[s].h, ops[s].arg)
            /\ IF projectPath = ""
               THEN /\ ops' = [ops EXCEPT ![s] = NoOp]
                    /\ event' = [name |-> ops[s].h, arg |-> ops[s].arg, at |-> "", out |-> "done"]
               ELSE /\ ops' = [ops EXCEPT ![s] = refreshCall(s)]
                    /\ event' = [name |-> ops[s].h, arg |-> ops[s].arg, at |-> currentCharId, out |-> "refresh"]
    /\ UNCHANGED <<projectPath, folders, docs, characters, rootNodes, memo,
                   expanded, confirmOpen, pendingFolderId, searchQ,
                   searchResults, db, nextId>>

\* listTree returned to the refresh awaited inside a delete handler's try.
afterDeleteRefresh(s) ==
    /\ ops[s].h \in DeleteHandlers
    /\ ops[s].pc = "listTree"
    /\ ops[s].st # "pending"
    /\ IF ops[s].st = "err"
       THEN /\ event' = [name |-> ops[s].h, arg |-> "", at |-> "", out |-> "alertRefresh"]
            /\ UNCHANGED <<folders, docs, characters, rootNodes, memo>>
       ELSE /\ replaceEntities(ops[s].tree)
            /\ event' = [name |-> ops[s].h, arg |-> ops[s].arg, at |-> "", out |-> "done"]
    /\ ops' = [ops EXCEPT ![s] = NoOp]
    /\ UNCHANGED <<projectPath, currentDocId, currentCharId, expanded,
                   confirmOpen, pendingFolderId, searchQ, searchResults, db,
                   nextId>>

\* ------------------------------------------------------- open / create project
\* createOrOpen(kind) up to the await of the directory picker.
createOrOpen(kind) ==
    /\ CanStartOpen
    /\ ops' = [ops EXCEPT ![FirstFree] =
                  Call("createOrOpen", "open", "", kind, "", <<>>)]
    /\ event' = [name |-> "createOrOpen", arg |-> "", at |-> "", out |-> "picker"]
    /\ UNCHANGED <<projectPath, currentDocId, currentCharId, folders, docs,
                   characters, rootNodes, memo, expanded, confirmOpen,
                   pendingFolderId, searchQ, searchResults, db, nextId>>

\* The picker returned dir (NULL: dismissed).
afterOpenDialog(s, dir) ==
    /\ ops[s].h = "createOrOpen"
    /\ ops[s].pc = "open"
    /\ IF dir = NULL
       THEN /\ ops' = [ops EXCEPT ![s] = NoOp]
            /\ event' = [name |-> "createOrOpen", arg |-> "", at |-> "", out |-> "noDir"]
       ELSE /\ ops' = [ops EXCEPT ![s] =
                          Call("createOrOpen",
                               IF ops[s].arg = "create" THEN "createProject"
                               ELSE "openProject",
                               dir, "", "", <<>>)]
            /\ event' = [name |-> "createOrOpen", arg |-> "", at |-> "", out |-> "called"]
    /\ UNCHANGED <<projectPath, currentDocId, currentCharId, folders, docs,
                   characters, rootNodes, memo, expanded, confirmOpen,
                   pendingFolderId, searchQ, searchResults, db, nextId>>

\* createProject / openProject returned p: state.projectPath = p, then the
\* await of listTree(state.projectPath).  Tree's effect on snap.projectPath
\* runs refresh() when the path changed.
afterOpenProject(s) ==
    /\ ops[s].h = "createOrOpen"
    /\ ops[s].pc \in {"createProject", "openProject"}
    /\ ops[s].st # "pending"
    /\ IF ops[s].st = "err"
       THEN /\ ops' = [ops EXCEPT ![s] = NoOp]
            /\ event' = [name |-> "createOrOpen", arg |-> "", at |-> "", out |-> "alert"]
            /\ UNCHANGED projectPath
       ELSE /\ projectPath' = ops[s].rid
            /\ IF ops[s].rid # projectPath /\ ops[s].rid # ""
               THEN /\ CanRefresh
                    /\ ops' = [ops EXCEPT
                                 ![s] = Call("createOrOpen", "listTree", ops[s].rid,
                                             "", "", <<>>),
                                 ![FirstFree] = Call("refresh", "listTree", ops[s].rid,
                                                     "", "", <<>>)]
               ELSE ops' = [ops EXCEPT
                              ![s] = Call("createOrOpen", "listTree", ops[s].rid,
                                          "", "", <<>>)]
            /\ event' = [name |-> "createOrOpen", arg |-> ops[s].rid, at |-> "", out |-> "setProject"]
    /\ UNCHANGED <<currentDocId, currentCharId, folders, docs, characters,
                   rootNodes, memo, expanded, confirmOpen, pendingFolderId,
                   searchQ, searchResults, db, nextId>>

\* listTree returned to createOrOpen: if (docs[0]) state.currentDocId = docs[0].id.
afterOpenListTree(s) ==
    /\ ops[s].h = "createOrOpen"
    /\ ops[s].pc = "listTree"
    /\ ops[s].st # "pending"
    /\ IF ops[s].st = "err"
       THEN /\ event' = [name |-> "createOrOpen", arg |-> "", at |-> "", out |-> "alert"]
            /\ UNCHANGED currentDocId
       ELSE /\ currentDocId' = IF Len(ops[s].tree.docs) > 0
                               THEN ops[s].tree.docs[1].id ELSE currentDocId
            /\ event' = [name |-> "createOrOpen", arg |-> ops[s].path, at |-> "", out |-> "done"]
    /\ ops' = [ops EXCEPT ![s] = NoOp]
    /\ UNCHANGED <<projectPath, currentCharId, folders, docs, characters,
                   rootNodes, memo, expanded, confirmOpen, pendingFolderId,
                   searchQ, searchResults, db, nextId>>

\* ------------------------------------------------------------------- search
Queries == {"", "x"}

onSearch(q) ==
    /\ q \in Queries
    /\ searchQ' = q
    /\ IF q = ""
       THEN /\ searchResults' = <<>>
            /\ event' = [name |-> "onSearch", arg |-> "", at |-> "", out |-> "empty"]
            /\ UNCHANGED ops
       ELSE /\ CanStart
            /\ ops' = [ops EXCEPT ![FirstFree] =
                          Call("onSearch", "doSearch", projectPath, q, q, <<>>)]
            /\ event' = [name |-> "onSearch", arg |-> "", at |-> "", out |-> "called"]
            /\ UNCHANGED searchResults
    /\ UNCHANGED <<projectPath, currentDocId, currentCharId, folders, docs,
                   characters, rootNodes, memo, expanded, confirmOpen,
                   pendingFolderId, db, nextId>>

afterSearch(s) ==
    /\ ops[s].h = "onSearch"
    /\ ops[s].st # "pending"
    /\ IF ops[s].st = "err"
       THEN /\ event' = [name |-> "onSearch", arg |-> "", at |-> "", out |-> "rejected"]
            /\ UNCHANGED searchResults
       ELSE /\ searchResults' = ops[s].rows
            /\ event' = [name |-> "onSearch", arg |-> "", at |-> "", out |-> "done"]
    /\ ops' = [ops EXCEPT ![s] = NoOp]
    /\ UNCHANGED <<projectPath, currentDocId, currentCharId, folders, docs,
                   characters, rootNodes, memo, expanded, confirmOpen,
                   pendingFolderId, searchQ, db, nextId>>

\* A click on a search result: state.currentDocId = r.id.
onResultClick(id) ==
    /\ \E i \in 1..Len(searchResults) : searchResults[i] = id
    /\ currentDocId' = id
    /\ event' = [name |-> "onResultClick", arg |-> id, at |-> "", out |-> "done"]
    /\ UNCHANGED <<projectPath, currentCharId, folders, docs, characters,
                   rootNodes, memo, expanded, confirmOpen, pendingFolderId,
                   searchQ, searchResults, ops, db, nextId>>

\* ------------------------------------------------------ persistence engine
\* The engine is the Rust side behind invoke(); its commands follow the
\* collaborator interface: listTree, create*, delete*, search.
NewId == "n" \o ToString(nextId)

\* The folder ids of the subtree rooted at the ids of S.
RECURSIVE subtree(_, _)
subtree(t, S) ==
    LET more == S \cup {t.folders[i].id : i \in {j \in 1..Len(t.folders) :
                                                  t.folders[j].parentId \in S}}
    IN IF more = S THEN S ELSE subtree(t, more)

engineCreate(t, pc, id, name, parent) ==
    IF pc = "newFolder"
    THEN [t EXCEPT !.folders = Append(@, [id |-> id, name |-> name, parentId |-> parent])]
    ELSE IF pc = "newDoc"
    THEN [t EXCEPT !.docs = Append(@, [id |-> id, title |-> name, folderId |-> parent])]
    ELSE [t EXCEPT !.characters = Append(@, [id |-> id, name |-> name, folderId |-> parent])]

\* A delete removes the rows its request names; a request without an id
\* names none.
engineDelete(t, pc, id) ==
    IF id = NULL
    THEN t
    ELSE IF pc = "deleteFolderRecursive"
    THEN [folders |-> SelectSeq(t.folders, LAMBDA f : f.id \notin subtree(t, {id})),
          docs |-> SelectSeq(t.docs, LAMBDA d : d.folderId \notin subtree(t, {id})),
          characters |-> SelectSeq(t.characters,
                                   LAMBDA c : c.folderId \notin subtree(t, {id}))]
    ELSE IF pc = "deleteDoc"
    THEN [t EXCEPT !.docs = SelectSeq(@, LAMBDA d : d.id # id)]
    ELSE [t EXCEPT !.characters = SelectSeq(@, LAMBDA c : c.id # id)]

engineSearch(t, q) == [i \in 1..Len(t.docs) |-> t.docs[i].id]

\* The engine rejects the call in slot s.
engineReject(s) ==
    /\ ops[s].st = "pending"
    /\ ops[s].pc # "open"
    /\ ops' = [ops EXCEPT ![s].st = "err"]
    /\ event' = [name |-> "engine", arg |-> "", at |-> "", out |-> ""]
    /\ UNCHANGED <<projectPath, currentDocId, currentCharId, folders, docs,
                   characters, rootNodes, memo, expanded, confirmOpen,
                   pendingFolderId, searchQ, searchResults, db, nextId>>

\* The engine carries out the call in slot s and resolves it.
engineResolve(s) ==
    /\ ops[s].st = "pending"
    /\ ops[s].pc # "open"
    /\ ops[s].path \in Projects
    /\ IF ops[s].pc \in {"newFolder", "newDoc", "newCharacter"}
       THEN /\ nextId <= MaxIds
            /\ db' = [db EXCEPT ![ops[s].path] =
                         engineCreate(@, ops[s].pc, NewId, ops[s].name, ops[s].req)]
            /\ nextId' = nextId + 1
            /\ ops' = [ops EXCEPT ![s].st = "ok", ![s].rid = NewId]
       ELSE IF ops[s].pc \in DeleteCalls
       THEN /\ db' = [db EXCEPT ![ops[s].path] = engineDelete(@, ops[s].pc, ops[s].req)]
            /\ ops' = [ops EXCEPT ![s].st = "ok"]
            /\ UNCHANGED nextId
       ELSE /\ ops' = [ops EXCEPT
                         ![s].st = "ok",
                         ![s].rid = IF ops[s].pc \in {"createProject", "openProject"}
                                    THEN ops[s].path ELSE @,
                         ![s].tree = IF ops[s].pc = "listTree"
                                     THEN db[ops[s].path] ELSE EmptyTree,
                         ![s].rows = IF ops[s].pc = "doSearch"
                                     THEN engineSearch(db[ops[s].path], ops[s].req)
                                     ELSE <<>>]
            /\ UNCHANGED <<db, nextId>>
    /\ event' = [name |-> "engine", arg |-> "", at |-> "", out |-> ""]
    /\ UNCHANGED <<projectPath, currentDocId, currentCharId, folders, docs,
                   characters, rootNodes, memo, expanded, confirmOpen,
                   pendingFolderId, searchQ, searchResults>>

\* ------------------------------------------------------------ specification
\* The projects found on disk when the application starts.
InitialDb ==
    [p \in Projects |->
        IF p = "p1"
        THEN [folders |-> <<[id |-> "f1", name |-> <<"A">>, parentId |-> NULL]>>,
              docs |-> <<[id |-> "d1", title |-> <<"A">>, folderId |-> "f1"]>>,
              characters |-> <<[id |-> "c1", name |-> <<"B">>, folderId |-> NULL]>>]
        ELSE EmptyTree]

\* The store as store.ts constructs it, and Tree's useState defaults.
Init ==
    /\ projectPath = ""
    /\ currentDocId = ""
    /\ currentCharId = ""
    /\ folders = <<>>
    /\ docs = <<>>
    /\ characters = <<>>
    /\ rootNodes = <<>>
    /\ memo = "fresh"
    /\ expanded = {}
    /\ confirmOpen = FALSE
    /\ pendingFolderId = NULL
    /\ searchQ = ""
    /\ searchResults = <<>>
    /\ ops = [s \in Slots |-> NoOp]
    /\ db = InitialDb
    /\ nextId = 1
    /\ event = NoEvent
    /\ EditorInit

\* No handler the user started is awaiting.
OneAtATime == \A s \in Slots : ops[s].h \in {"idle", "refresh"}

\* The tree view and the project buttons: selection, expand state, the three
\* create handlers, open / create project and the refreshes they start; the
\* user presses a project button while no other handler is awaiting.
Next ==
    \/ \E id \in VisibleIds("folder") : toggle(id) /\ EditorIdle
    \/ \E id \in VisibleIds("doc") : onSelectDoc(id) /\ EditorIdle
    \/ \E id \in VisibleIds("character") : onSelectChar(id) /\ EditorIdle
    \/ \E parent \in {NULL} \cup VisibleIds("folder") :
          \/ createFolder(parent) /\ EditorIdle
          \/ createDoc(parent) /\ EditorIdle
          \/ createCharacterTab(parent) /\ EditorIdle
    \/ \E kind \in {"open", "create"} : createOrOpen(kind) /\ OneAtATime /\ EditorIdle
    \/ \E s \in Slots :
          \/ afterNew(s) /\ EditorIdle
          \/ afterCreateRefresh(s) /\ EditorIdle
          \/ afterRefresh(s) /\ EditorIdle
          \/ \E dir \in Projects \cup {NULL} : afterOpenDialog(s, dir) /\ EditorIdle
          \/ afterOpenProject(s) /\ EditorIdle
          \/ afterOpenListTree(s) /\ EditorIdle
          \/ engineReject(s) /\ EditorIdle
          \/ engineResolve(s) /\ EditorIdle

Spec == Init /\ [][Next]_vars

\* ------------------------------------- creates and deletes in an open project
\* The state Spec reaches once project p1 is open and Tree's refresh has
\* listed it: createOrOpen selected the first document, or its own listTree
\* failed and nothing is selected.
InitOpen ==
    /\ projectPath = "p1"
    /\ currentDocId \in {"", "d1"}
    /\ currentCharId = ""
    /\ folders = InitialDb["p1"].folders
    /\ docs = InitialDb["p1"].docs
    /\ characters = InitialDb["p1"].characters
    /\ rootNodes = buildTree(InitialDb["p1"].folders, InitialDb["p1"].docs,
                             InitialDb["p1"].characters)
    /\ memo = "fresh"
    /\ expanded = {}
    /\ confirmOpen = FALSE
    /\ pendingFolderId = NULL
    /\ searchQ = ""
    /\ searchResults = <<>>
    /\ ops = [s \in Slots |-> NoOp]
    /\ db = InitialDb
    /\ nextId = 1
    /\ event = NoEvent
    /\ EditorInit

\* The tree view of an open project: selection, expand state, the create
\* handlers, the delete handlers and the confirmation dialog.
NextOps ==
    \/ \E id \in VisibleIds("folder") : toggle(id) /\ EditorIdle
    \/ \E id \in VisibleIds("doc") : onSelectDoc(id) /\ EditorIdle
    \/ \E id \in VisibleIds("character") : onSelectChar(id) /\ EditorIdle
    \/ \E parent \in {NULL} \cup VisibleIds("folder") :
          \/ createFolder(parent) /\ EditorIdle
          \/ createDoc(parent) /\ EditorIdle
          \/ createCharacterTab(parent) /\ EditorIdle
    \/ \E id \in VisibleIds("folder") : requestDeleteFolder(id) /\ EditorIdle
    \/ \E confirmed \in BOOLEAN : onClose(confirmed) /\ EditorIdle
    \/ \E id \in VisibleIds("doc") : handleDeleteDoc(id) /\ EditorIdle
    \/ \E id \in VisibleIds("character") : handleDeleteCharacter(id) /\ EditorIdle
    \/ \E s \in Slots :
          \/ afterNew(s) /\ EditorIdle
          \/ afterCreateRefresh(s) /\ EditorIdle
          \/ afterDelete(s) /\ EditorIdle
          \/ afterDeleteRefresh(s) /\ EditorIdle
          \/ engineReject(s) /\ EditorIdle
          \/ engineResolve(s) /\ EditorIdle

SpecOps == InitOpen /\ [][NextOps]_vars

\* An open project whose user creates documents and characters and presses
\* the project buttons whenever they are enabled, also while a create
\* handler is awaiting; the engine carries out every call.
NextSwitch ==
    \/ \E parent \in {NULL} \cup VisibleIds("folder") :
          \/ createDoc(parent) /\ EditorIdle
          \/ createCharacterTab(parent) /\ EditorIdle
    \/ \E kind \in {"open", "create"} : createOrOpen(kind) /\ EditorIdle
    \/ \E s \in Slots :
          \/ afterNew(s) /\ EditorIdle
          \/ afterCreateRefresh(s) /\ EditorIdle
          \/ afterRefresh(s) /\ EditorIdle
          \/ \E dir \in Projects \cup {NULL} : afterOpenDialog(s, dir) /\ EditorIdle
          \/ afterOpenProject(s) /\ EditorIdle
          \/ afterOpenListTree(s) /\ EditorIdle
          \/ engineResolve(s) /\ EditorIdle

SpecSwitch == InitOpen /\ [][NextSwitch]_vars

\* The search panel beside the tree of an open project: queries typed into
\* the box, the answers of the engine, clicks on results and on tree rows.
NextSearch ==
    \/ \E q \in Queries : onSearch(q) /\ EditorIdle
    \/ \E i \in 1..Len(searchResults) : onResultClick(searchResults[i]) /\ EditorIdle
    \/ \E id \in VisibleIds("folder") : toggle(id) /\ EditorIdle
    \/ \E id \in VisibleIds("doc") : onSelectDoc(id) /\ EditorIdle
    \/ \E id \in VisibleIds("character") : onSelectChar(id) /\ EditorIdle
    \/ \E s \in Slots :
          \/ afterSearch(s) /\ EditorIdle
          \/ engineResolve(s) /\ EditorIdle

SpecSearch == InitOpen /\ [][NextSearch]_vars

\* Variant: refresh calls listTree whatever the project path is.
refresh_NoGuard ==
    /\ CanRefresh
    /\ ops' = [ops EXCEPT ![FirstFree] =
                  Call("refresh", "listTree", projectPath, "", "", <<>>)]
    /\ event' = [name |-> "refresh", arg |-> "", at |-> "", out |-> "called"]
    /\ UNCHANGED <<projectPath, currentDocId, currentCharId, folders, docs,
                   characters, rootNodes, memo, expanded, confirmOpen,
                   pendingFolderId, searchQ, searchResults, db, nextId>>

\* A call of refresh() by itself, up to the await of listTree: it returns at
\* once without a project path.
refresh ==
    /\ IF projectPath = ""
       THEN /\ event' = [name |-> "refresh", arg |-> "", at |-> "", out |-> "noProject"]
            /\ UNCHANGED ops
       ELSE /\ CanRefresh
            /\ ops' = [ops EXCEPT ![FirstFree] =
                          Call("refresh", "listTree", projectPath, "", "", <<>>)]
            /\ event' = [name |-> "refresh", arg |-> "", at |-> "", out |-> "called"]
    /\ UNCHANGED <<projectPath, currentDocId, currentCharId, folders, docs,
                   characters, rootNodes, memo, expanded, confirmOpen,
                   pendingFolderId, searchQ, searchResults, db, nextId>>

\* refresh as a function of the store: it is called in any state, before a
\* project is open and after, beside the project buttons and the folder
\* create whose rows it lists; the engine may reject a call.
NextRefresh ==
    \/ refresh /\ EditorIdle
    \/ \E parent \in {NULL} \cup VisibleIds("folder") :
          createFolder(parent) /\ EditorIdle
    \/ \E kind \in {"open", "create"} : createOrOpen(kind) /\ OneAtATime /\ EditorIdle
    \/ \E s \in Slots :
          \/ afterNew(s) /\ EditorIdle
          \/ afterCreateRefresh(s) /\ EditorIdle
          \/ afterRefresh(s) /\ EditorIdle
          \/ \E dir \in Projects \cup {NULL} : afterOpenDialog(s, dir) /\ EditorIdle
          \/ afterOpenProject(s) /\ EditorIdle
          \/ afterOpenListTree(s) /\ EditorIdle
          \/ engineReject(s) /\ EditorIdle
          \/ engineResolve(s) /\ EditorIdle

SpecRefresh == Init /\ [][NextRefresh]_vars

\* ------------------------------------------------------------ editor pane
\* The autosave period (5000 ms) counted in ticks of the clock.
TicksPerPeriod == 2

\* What the user may type into the textarea or into a profile field.
Texts == {<<"A">>, <<"B">>}

\* The steps of the editor pane are told apart by the calls they start.
EditorEvent == [name |-> "editor", arg |-> "", at |-> "", out |-> ""]

\* What a save's continuation leaves behind when its await threw: nothing in
\* the store; the history records that the callback ended in the rejection.
SaveRejected(pc) == [name |-> "editor", arg |-> pc, at |-> "", out |-> "rejected"]

\* Date.now() at the end of a save; lastSaved is 0 until then, and the value
\* of the wall clock is not followed.
stamp(last) == 1

\* ops' with the ipc call c put into the first free slot.
startCall(c) ==
    /\ Busy < MaxOps
    /\ ops' = [ops EXCEPT ![FirstFree] = c]

\* Variant: the change of the document is answered with a save of the buffer
\* to the document that was left.
selectionLoads_Flush(doc, char) ==
    IF doc # currentDocId /\ projectPath # "" /\ currentDocId # ""
    THEN startCall(Call("App", "saveDoc", projectPath, currentDocId,
                        currentDocId, editor.md))
    ELSE UNCHANGED ops

\* The calls the effects make that depend on the selection: App's load
\* effect for a new document, CharacterEditor's for a new character.
selectionLoads(doc, char) ==
    IF doc # currentDocId /\ projectPath # "" /\ doc # ""
    THEN startCall(Call("App", "loadDoc", projectPath, doc, doc, <<>>))
    ELSE IF char # currentCharId /\ projectPath # "" /\ char # ""
    THEN startCall(Call("CharacterEditor", "loadCharacter", projectPath,
                        char, char, <<>>))
    ELSE UNCHANGED ops

\* The effects React runs after a render in which the selection became
\* (doc, char): App's load effect, Editor's autosave effect, and the mount,
\* the load effect and the autosave effect of CharacterEditor, which Editor
\* renders while a character is selected.
selectionEffects(doc, char) ==
    /\ selectionLoads(doc, char)
    /\ timer' = IF doc # currentDocId THEN 0 ELSE timer
    /\ charTimer' = IF char = "" THEN Unarmed
                    ELSE IF char # currentCharId THEN 0 ELSE charTimer
    /\ armed' = [doc |-> IF doc # currentDocId THEN rearm(armed.doc)
                         ELSE armed.doc,
                 char |-> IF char = ""
                          THEN IF currentCharId = "" THEN armed.char
                               ELSE autosaveCleanup(armed.char)
                          ELSE IF currentCharId = ""
                          THEN autosaveEffect([armed.char EXCEPT !.ref = FALSE])
                          ELSE IF char # currentCharId THEN rearm(armed.char)
                          ELSE armed.char]
    /\ sinceFlush' = IF doc # currentDocId THEN 0 ELSE sinceFlush

\* Variant: the click also empties the document buffer.
selectDocRendered_ClearBuffer(id) ==
    /\ id \in VisibleIds("doc")
    /\ selectDoc(id)
    /\ selectionEffects(id, "")
    /\ editor' = [editor EXCEPT !.md = <<>>]
    /\ event' = EditorEvent
    /\ UNCHANGED <<projectPath, folders, docs, characters, rootNodes, memo,
                   expanded, confirmOpen, pendingFolderId, searchQ,
                   searchResults, db, nextId, charEditor, bodies,
                   profiles, mdOf>>

\* A click on a document row, and the render that follows it.
selectDocRendered(id) ==
    /\ id \in VisibleIds("doc")
    /\ selectDoc(id)
    /\ selectionEffects(id, "")
    /\ event' = EditorEvent
    /\ UNCHANGED <<projectPath, folders, docs, characters, rootNodes, memo,
                   expanded, confirmOpen, pendingFolderId, searchQ,
                   searchResults, db, nextId, editor, charEditor, bodies,
                   profiles, mdOf>>

\* A click on a character row, and the render that follows it.
selectCharRendered(id) ==
    /\ id \in VisibleIds("character")
    /\ selectChar(id)
    /\ selectionEffects("", id)
    /\ event' = EditorEvent
    /\ UNCHANGED <<projectPath, folders, docs, characters, rootNodes, memo,
                   expanded, confirmOpen, pendingFolderId, searchQ,
                   searchResults, db, nextId, editor, charEditor, bodies,
                   profiles, mdOf>>

\* The variables no step of the editor pane writes.
treeVars == <<projectPath, currentDocId, currentCharId, folders, docs,
              characters, rootNodes, memo, expanded, confirmOpen,
              pendingFolderId, searchQ, searchResults, db, nextId>>

\* The textarea's onChange; the changed md re-runs the autosave effect, which
\* clears the interval and arms a new one.
onChange(text) ==
    /\ currentCharId = ""
    /\ text # editor.md
    /\ editor' = [editor EXCEPT !.md = text]
    /\ timer' = 0
    /\ armed' = [armed EXCEPT !.doc = rearm(@)]
    /\ mdOf' = currentDocId
    /\ sinceFlush' = IF text = <<>> THEN 0 ELSE sinceFlush
    /\ event' = EditorEvent
    /\ UNCHANGED <<treeVars, ops, charEditor, charTimer, bodies, profiles>>

\* The save both the interval callback and onBlur make: nothing without a
\* current document, else saveDoc of the rendered md to the rendered id.
\* Variant: the save is made without the test.
saveDocCall_Always(h) ==
    /\ startCall(Call(h, "saveDoc", projectPath, currentDocId, currentDocId,
                      editor.md))
    /\ sinceFlush' = 0

\* Variant: the save is never made.
saveDocCall_Never(h) == UNCHANGED <<ops, sinceFlush>>

saveDocCall(h) ==
    IF currentDocId = ""
    THEN UNCHANGED <<ops, sinceFlush>>
    ELSE /\ startCall(Call(h, "saveDoc", projectPath, currentDocId,
                           currentDocId, editor.md))
         /\ sinceFlush' = 0

\* Variant: the interval's callback saves without looking at the selection.
autosave_Unguarded ==
    /\ timer = TicksPerPeriod
    /\ timer' = 0
    /\ startCall(Call("autosave", "saveDoc", projectPath, currentDocId,
                      currentDocId, editor.md))
    /\ sinceFlush' = 0
    /\ event' = EditorEvent
    /\ UNCHANGED <<treeVars, armed, editor, charEditor, charTimer, bodies, profiles, mdOf>>

\* The callback of Editor's interval.
autosave ==
    /\ timer = TicksPerPeriod
    /\ timer' = 0
    /\ saveDocCall("autosave")
    /\ event' = EditorEvent
    /\ UNCHANGED <<treeVars, armed, editor, charEditor, charTimer, bodies, profiles, mdOf>>

\* The textarea loses the focus.
onBlur ==
    /\ currentCharId = ""
    /\ saveDocCall("onBlur")
    /\ event' = EditorEvent
    /\ UNCHANGED <<treeVars, armed, editor, charEditor, timer, charTimer, bodies,
                   profiles, mdOf>>

\* App's load effect after its await: the body is stored whatever is
\* selected by now; a rejection ends the effect.
afterLoadDoc(s) ==
    /\ ops[s].pc = "loadDoc"
    /\ ops[s].st \in {"ok", "err"}
    /\ ops' = [ops EXCEPT ![s] = NoOp]
    /\ IF ops[s].st = "ok"
       THEN /\ editor' = [editor EXCEPT !.md = ops[s].rows]
            /\ timer' = IF ops[s].rows # editor.md THEN 0 ELSE timer
            /\ armed' = IF ops[s].rows # editor.md
                        THEN [armed EXCEPT !.doc = rearm(@)]
                        ELSE armed
            /\ mdOf' = ops[s].arg
            /\ sinceFlush' = IF ops[s].rows = <<>> THEN 0 ELSE sinceFlush
       ELSE UNCHANGED <<editor, timer, armed, mdOf, sinceFlush>>
    /\ event' = EditorEvent
    /\ UNCHANGED <<treeVars, charEditor, charTimer, bodies, profiles>>

\* Variant: the stamp is written whether or not the save succeeded.
afterSaveDoc_StampOnError(s) ==
    /\ ops[s].pc = "saveDoc"
    /\ ops[s].st \in {"ok", "err"}
    /\ ops' = [ops EXCEPT ![s] = NoOp]
    /\ editor' = [editor EXCEPT !.lastSaved = stamp(@)]
    /\ event' = IF ops[s].st = "ok" THEN EditorEvent ELSE SaveRejected(ops[s].pc)
    /\ UNCHANGED <<treeVars, armed, charEditor, timer, charTimer, bodies, profiles,
                   mdOf, sinceFlush>>

\* The interval callback or onBlur after its await: the stamp is the
\* statement after the await, which a rejection never reaches.
afterSaveDoc(s) ==
    /\ ops[s].pc = "saveDoc"
    /\ ops[s].st \in {"ok", "err"}
    /\ ops' = [ops EXCEPT ![s] = NoOp]
    /\ editor' = IF ops[s].st = "ok"
                 THEN [editor EXCEPT !.lastSaved = stamp(@)]
                 ELSE editor
    /\ event' = IF ops[s].st = "ok" THEN EditorEvent ELSE SaveRejected(ops[s].pc)
    /\ UNCHANGED <<treeVars, armed, charEditor, timer, charTimer, bodies, profiles,
                   mdOf, sinceFlush>>

\* A profile field's onChange (the age field stands for the six).
charChange(text) ==
    /\ currentCharId # ""
    /\ text # charEditor.profile.age
    /\ charEditor' = [charEditor EXCEPT !.profile.age = text]
    /\ charTimer' = 0
    /\ armed' = [armed EXCEPT !.char = rearm(@)]
    /\ event' = EditorEvent
    /\ UNCHANGED <<treeVars, ops, editor, timer, bodies, profiles, mdOf,
                   sinceFlush>>

\* saveCharacter of the six profile fields to the current character.
saveCharacterCall(h) ==
    IF currentCharId = ""
    THEN UNCHANGED ops
    ELSE startCall([Call(h, "saveCharacter", projectPath, currentCharId,
                         currentCharId, <<>>)
                    EXCEPT !.data = charEditor.profile])

\* The callback of CharacterEditor's interval.
charAutosave ==
    /\ charTimer = TicksPerPeriod
    /\ charTimer' = 0
    /\ saveCharacterCall("charAutosave")
    /\ event' = EditorEvent
    /\ UNCHANGED <<treeVars, armed, editor, charEditor, timer, bodies, profiles,
                   mdOf, sinceFlush>>

\* A profile field loses the focus.
charOnBlur ==
    /\ currentCharId # ""
    /\ saveCharacterCall("charOnBlur")
    /\ event' = EditorEvent
    /\ UNCHANGED <<treeVars, armed, editor, charEditor, timer, charTimer, bodies,
                   profiles, mdOf, sinceFlush>>

\* CharacterEditor's load effect after its await.
afterLoadCharacter(s) ==
    /\ ops[s].pc = "loadCharacter"
    /\ ops[s].st \in {"ok", "err"}
    /\ ops' = [ops EXCEPT ![s] = NoOp]
    /\ IF ops[s].st = "ok"
       THEN /\ charEditor' = [charEditor EXCEPT !.profile = ops[s].data]
            /\ charTimer' = IF charTimer # Unarmed /\ ops[s].data # charEditor.profile
                            THEN 0 ELSE charTimer
            /\ armed' = IF charTimer # Unarmed /\ ops[s].data # charEditor.profile
                        THEN [armed EXCEPT !.char = rearm(@)]
                        ELSE armed
       ELSE UNCHANGED <<charEditor, charTimer, armed>>
    /\ event' = EditorEvent
    /\ UNCHANGED <<treeVars, editor, timer, bodies, profiles, mdOf, sinceFlush>>

\* CharacterEditor's interval callback or onBlur after its await.
afterSaveCharacter(s) ==
    /\ ops[s].pc = "saveCharacter"
    /\ ops[s].st \in {"ok", "err"}
    /\ ops' = [ops EXCEPT ![s] = NoOp]
    /\ charEditor' = IF ops[s].st = "ok"
                     THEN [charEditor EXCEPT !.lastSaved = stamp(@)]
                     ELSE charEditor
    /\ event' = IF ops[s].st = "ok" THEN EditorEvent ELSE SaveRejected(ops[s].pc)
    /\ UNCHANGED <<treeVars, armed, editor, timer, charTimer, bodies, profiles, mdOf,
                   sinceFlush>>

\* One tick of the clock; an interval that is due runs its callback first.
tick ==
    /\ timer < TicksPerPeriod
    /\ charTimer < TicksPerPeriod
    /\ timer' = timer + 1
    /\ charTimer' = IF charTimer = Unarmed THEN Unarmed ELSE charTimer + 1
    /\ sinceFlush' = IF currentDocId # "" /\ editor.md # <<>>
                     THEN IF sinceFlush > TicksPerPeriod THEN sinceFlush
                          ELSE sinceFlush + 1
                     ELSE 0
    /\ event' = EditorEvent
    /\ UNCHANGED <<treeVars, armed, ops, editor, charEditor, bodies, profiles, mdOf>>

\* The engine carries out the load or save in slot s and resolves it.
EditorCalls == {"loadDoc", "saveDoc", "loadCharacter", "saveCharacter"}

engineEditor(s) ==
    /\ ops[s].st = "pending"
    /\ ops[s].pc \in EditorCalls
    /\ IF ops[s].pc = "loadDoc"
       THEN /\ ops[s].req \in DOMAIN bodies
            /\ ops' = [ops EXCEPT ![s].st = "ok", ![s].rows = bodies[ops[s].req]]
            /\ UNCHANGED <<bodies, profiles>>
       ELSE IF ops[s].pc = "saveDoc"
       THEN /\ ops[s].req \in DOMAIN bodies
            /\ bodies' = [bodies EXCEPT ![ops[s].req] = ops[s].name]
            /\ ops' = [ops EXCEPT ![s].st = "ok"]
            /\ UNCHANGED profiles
       ELSE IF ops[s].pc = "loadCharacter"
       THEN /\ ops[s].req \in DOMAIN profiles
            /\ ops' = [ops EXCEPT ![s].st = "ok", ![s].data = profiles[ops[s].req]]
            /\ UNCHANGED <<bodies, profiles>>
       ELSE /\ ops[s].req \in DOMAIN profiles
            /\ profiles' = [profiles EXCEPT ![ops[s].req] = ops[s].data]
            /\ ops' = [ops EXCEPT ![s].st = "ok"]
            /\ UNCHANGED bodies
    /\ event' = EditorEvent
    /\ UNCHANGED <<treeVars, armed, editor, charEditor, timer, charTimer, mdOf, sinceFlush>>

\* The engine rejects the load or save in slot s.
engineEditorReject(s) ==
    /\ ops[s].st = "pending"
    /\ ops[s].pc \in EditorCalls
    /\ ops' = [ops EXCEPT ![s].st = "err"]
    /\ event' = EditorEvent
    /\ UNCHANGED <<treeVars, editorVars>>

\* Project p1 with two documents at the root.
EditorDb ==
    [p \in Projects |->
        IF p = "p1"
        THEN [folders |-> <<>>,
              docs |-> <<[id |-> "d1", title |-> <<"A">>, folderId |-> NULL],
                         [id |-> "d2", title |-> <<"B">>, folderId |-> NULL]>>,
              characters |-> <<>>]
        ELSE EmptyTree]

\* Project p1 with a document and a character at the root.
PaneDb ==
    [p \in Projects |->
        IF p = "p1"
        THEN [folders |-> <<>>,
              docs |-> <<[id |-> "d1", title |-> <<"A">>, folderId |-> NULL]>>,
              characters |-> <<[id |-> "c1", name |-> <<"A">>, folderId |-> NULL]>>]
        ELSE EmptyTree]

\* Project p1 open and listed with the rows of d, nothing selected yet.
InitListed(d) ==
    /\ projectPath = "p1"
    /\ currentDocId = ""
    /\ currentCharId = ""
    /\ folders = d["p1"].folders
    /\ docs = d["p1"].docs
    /\ characters = d["p1"].characters
    /\ rootNodes = buildTree(d["p1"].folders, d["p1"].docs, d["p1"].characters)
    /\ memo = "fresh"
    /\ expanded = {}
    /\ confirmOpen = FALSE
    /\ pendingFolderId = NULL
    /\ searchQ = ""
    /\ searchResults = <<>>
    /\ ops = [s \in Slots |-> NoOp]
    /\ db = d
    /\ nextId = 1
    /\ event = NoEvent
    /\ EditorInit

InitEditor == InitListed(EditorDb)

\* The document editor of an open project with two documents: selection,
\* typing, blur, the autosave interval, the loads and saves (which the engine
\* may reject) and the clock.
NextEditor ==
    \/ \E id \in VisibleIds("doc") : selectDocRendered(id)
    \/ \E text \in Texts : onChange(text)
    \/ onBlur
    \/ autosave
    \/ tick
    \/ \E s \in Slots :
          \/ afterLoadDoc(s)
          \/ afterSaveDoc(s)
          \/ engineEditorReject(s)
          \/ engineEditor(s)

SpecEditor == InitEditor /\ [][NextEditor]_vars

\* The document editor with an engine that carries out every call, and its
\* scheduling: time passes, an interval that is due runs its callback, the
\* engine answers, and the handler that awaits an answer goes on.
NextEditorFair ==
    \/ \E id \in VisibleIds("doc") : selectDocRendered(id)
    \/ \E text \in Texts : onChange(text)
    \/ onBlur
    \/ autosave
    \/ tick
    \/ \E s \in Slots :
          \/ afterLoadDoc(s)
          \/ afterSaveDoc(s)
          \/ engineEditor(s)

EditorFairness ==
    /\ WF_vars(tick)
    /\ WF_vars(autosave)
    /\ \A s \in Slots :
          /\ WF_vars(engineEditor(s))
          /\ WF_vars(afterLoadDoc(s))
          /\ WF_vars(afterSaveDoc(s))

SpecEditorFair == InitEditor /\ [][NextEditorFair]_vars /\ EditorFairness

InitPane == InitListed(PaneDb)

\* The editor pane of an open project with a document and a character: both
\* editors, their intervals, loads and saves, and the clock; the engine
\* carries out every call.
NextPane ==
    \/ \E id \in VisibleIds("doc") : selectDocRendered(id)
    \/ \E id \in VisibleIds("character") : selectCharRendered(id)
    \/ \E text \in Texts : onChange(text)
    \/ \E text \in Texts : charChange(text)
    \/ onBlur
    \/ charOnBlur
    \/ autosave
    \/ charAutosave
    \/ tick
    \/ \E s \in Slots :
          \/ afterLoadDoc(s)
          \/ afterSaveDoc(s)
          \/ afterLoadCharacter(s)
          \/ afterSaveCharacter(s)
          \/ engineEditor(s)

SpecPane == InitPane /\ [][NextPane]_vars

\* The engine rejects the save in slot s.
engineSaveReject(s) ==
    /\ ops[s].pc \in {"saveDoc", "saveCharacter"}
    /\ engineEditorReject(s)

\* The editor pane with saves the engine may reject: both editors, typing in
\* the character form, blurs, both intervals and the clock.
NextSaves ==
    \/ \E id \in VisibleIds("doc") : selectDocRendered(id)
    \/ \E id \in VisibleIds("character") : selectCharRendered(id)
    \/ \E text \in Texts : charChange(text)
    \/ onBlur
    \/ charOnBlur
    \/ autosave
    \/ charAutosave
    \/ tick
    \/ \E s \in Slots :
          \/ afterLoadDoc(s)
          \/ afterSaveDoc(s)
          \/ afterLoadCharacter(s)
          \/ afterSaveCharacter(s)
          \/ engineEditor(s)
          \/ engineSaveReject(s)

SpecSaves == InitPane /\ [][NextSaves]_vars

\* --------------------------------------------------------- image import
\* What the file picker returns: a path, or null when it is dismissed.
Picked == {NULL, "file"}

\* The destination path importCharacterImage returns: the copy the engine
\* made among the assets of character c.
ImageOf(c) == <<c>>

\* The button of CharacterEditor: onPickImage up to the await of the picker.
\* arg keeps s.currentCharId, the character of the render the handler was
\* made in.
onPickImage ==
    /\ currentCharId # ""
    /\ startCall(Call("onPickImage", "open", "", currentCharId, "", <<>>))
    /\ event' = EditorEvent
    /\ UNCHANGED <<treeVars, editorVars>>

\* The picker returned: nothing more when it was dismissed, else the await
\* of importCharacterImage(state.projectPath, state.currentCharId, picked).
afterPickImage(s, picked) ==
    /\ ops[s].h = "onPickImage"
    /\ ops[s].pc = "open"
    /\ ops' = [ops EXCEPT ![s] =
                  IF picked = NULL THEN NoOp
                  ELSE Call("onPickImage", "importCharacterImage", projectPath,
                            ops[s].arg, currentCharId, <<>>)]
    /\ event' = EditorEvent
    /\ UNCHANGED <<treeVars, editorVars>>

\* importCharacterImage returned: state.charEditor.image = destAbsPath, then
\* the await of saveCharacter(state.projectPath, s.currentCharId, ...) with
\* the fields of state.charEditor and the new path; the changed image
\* re-runs the autosave effect while CharacterEditor is mounted.  A
\* rejection ends the handler.
afterImport(s) ==
    /\ ops[s].pc = "importCharacterImage"
    /\ ops[s].st \in {"ok", "err"}
    /\ IF ops[s].st = "ok"
       THEN /\ charEditor' = [charEditor EXCEPT !.profile.image = ops[s].rows]
            /\ ops' = [ops EXCEPT ![s] =
                          [Call("onPickImage", "saveCharacter", projectPath,
                                ops[s].arg, ops[s].arg, <<>>)
                           EXCEPT !.data = [charEditor.profile EXCEPT
                                               !.image = ops[s].rows]]]
            /\ charTimer' = IF charTimer # Unarmed
                               /\ ops[s].rows # charEditor.profile.image
                            THEN 0 ELSE charTimer
            /\ armed' = IF charTimer # Unarmed
                           /\ ops[s].rows # charEditor.profile.image
                        THEN [armed EXCEPT !.char = rearm(@)]
                        ELSE armed
            /\ event' = EditorEvent
       ELSE /\ ops' = [ops EXCEPT ![s] = NoOp]
            /\ event' = SaveRejected(ops[s].pc)
            /\ UNCHANGED <<charEditor, charTimer, armed>>
    /\ UNCHANGED <<treeVars, editor, timer, bodies, profiles, mdOf, sinceFlush>>

\* The engine copies the picked file for the character the request names
\* and returns the path of the copy; it rejects a request that names none.
engineImport(s) ==
    /\ ops[s].st = "pending"
    /\ ops[s].pc = "importCharacterImage"
    /\ ops' = IF ops[s].req \in DOMAIN profiles
              THEN [ops EXCEPT ![s].st = "ok", ![s].rows = ImageOf(ops[s].req)]
              ELSE [ops EXCEPT ![s].st = "err"]
    /\ event' = EditorEvent
    /\ UNCHANGED <<treeVars, editorVars>>

\* Project p1 with two characters at the root.
ImageDb ==
    [p \in Projects |->
        IF p = "p1"
        THEN [folders |-> <<>>,
              docs |-> <<>>,
              characters |-> <<[id |-> "c1", name |-> <<"A">>, folderId |-> NULL],
                               [id |-> "c2", name |-> <<"B">>, folderId |-> NULL]>>]
        ELSE EmptyTree]

InitImage == InitListed(ImageDb)

\* The picker is a dialog of the window: no click reaches the page while it
\* is open.
PickerShut == \A s \in Slots : ops[s].pc # "open"

\* The character form of an open project with two characters: selection,
\* blur, the image button with its picker and import, the loads and saves;
\* the engine carries out every call.
NextImage ==
    \/ \E id \in VisibleIds("character") : selectCharRendered(id) /\ PickerShut
    \/ charOnBlur /\ PickerShut
    \/ onPickImage /\ PickerShut
    \/ \E s \in Slots :
          \/ \E picked \in Picked : afterPickImage(s, picked)
          \/ afterImport(s)
          \/ afterLoadCharacter(s)
          \/ afterSaveCharacter(s)
          \/ engineImport(s)
          \/ engineEditor(s)

SpecImage == InitImage /\ [][NextImage]_vars

\* ------------------------------------------------- properties of buildTree
\* Every node of a forest of tree nodes, parents before their children.
RECURSIVE nodesOf(_)
nodesOf(nodes) ==
    IF nodes = <<>> THEN <<>>
    ELSE <<Head(nodes)>>
         \o (IF Head(nodes).kind = "folder" THEN nodesOf(Head(nodes).children)
             ELSE <<>>)
         \o nodesOf(Tail(nodes))

\* How many nodes of rootNodes stand for the entity id of kind.
Count(kind, id) ==
    Cardinality({i \in 1..Len(nodesOf(rootNodes)) :
                    /\ nodesOf(rootNodes)[i].kind = kind
                    /\ nodesOf(rootNodes)[i].id = id})

\* The ids of kind among the top-level nodes.
RootIds(kind) ==
    {rootNodes[i].id : i \in {j \in 1..Len(rootNodes) : rootNodes[j].kind = kind}}

FolderIdsOf(fs) == {fs[i].id : i \in 1..Len(fs)}

ParentOf(fs, id) == fs[CHOOSE i \in 1..Len(fs) : fs[i].id = id].parentId

\* ref is a parentId / folderId that names no folder of the input.
Dangling(ref) == ref # NULL /\ ref \notin FolderIdsOf(folders)

\* target is reached from folder id by following parentId at most fuel times.
RECURSIVE Reaches(_, _, _, _)
Reaches(fs, id, target, fuel) ==
    /\ fuel > 0
    /\ ParentOf(fs, id) \in FolderIdsOf(fs)
    /\ \/ ParentOf(fs, id) = target
       \/ Reaches(fs, ParentOf(fs, id), target, fuel - 1)

\* The folder id lies on a parent cycle of the input.
OnCycle(id) == Reaches(folders, id, id, Len(folders))

CycleFolders == {id \in FolderIdsOf(folders) : OnCycle(id)}

\* The input is a forest: every reference is null or names a folder, and no
\* folder is its own ancestor.
WellFormed ==
    /\ \A i \in 1..Len(folders) : ~Dangling(folders[i].parentId)
    /\ \A i \in 1..Len(docs) : ~Dangling(docs[i].folderId)
    /\ \A i \in 1..Len(characters) : ~Dangling(characters[i].folderId)
    /\ CycleFolders = {}

\* The sibling lists of the tree: the top level and every folder's children.
SiblingLists ==
    {rootNodes} \cup
    {nodesOf(rootNodes)[i].children :
        i \in {j \in 1..Len(nodesOf(rootNodes)) :
                  nodesOf(rootNodes)[j].kind = "folder"}}

\* Folders come first, and two siblings of one kind are in label order.
Ordered(list) ==
    \A i, j \in 1..Len(list) :
        i < j =>
            /\ list[j].kind = "folder" => list[i].kind = "folder"
            /\ list[i].kind = list[j].kind /\ list[i].kind # "overflow" =>
                  localeCompare(nodeLabel(list[i]), nodeLabel(list[j])) <= 0

\* The rows of the input that name parent (NULL for the top level) as their
\* parent, as (kind, id, label) triples.
RowsUnder(parent) ==
    {<<"folder", folders[i].id, folders[i].name>> :
        i \in {j \in 1..Len(folders) : folders[j].parentId = parent}}
    \cup {<<"doc", docs[i].id, docs[i].title>> :
        i \in {j \in 1..Len(docs) : docs[j].folderId = parent}}
    \cup {<<"character", characters[i].id, characters[i].name>> :
        i \in {j \in 1..Len(characters) : characters[j].folderId = parent}}

\* The nodes of a sibling list as (kind, id, label) triples.
Triples(list) ==
    {<<list[i].kind, list[i].id, nodeLabel(list[i])>> : i \in 1..Len(list)}

\* C4: after buildTree, every folder, document and character whose parentId /
\* folderId names no folder of the input is a top-level node of the tree.
C4_OrphansAtRoot ==
    memo = "fresh" =>
        /\ \A i \in 1..Len(folders) :
              Dangling(folders[i].parentId) => folders[i].id \in RootIds("folder")
        /\ \A i \in 1..Len(docs) :
              Dangling(docs[i].folderId) => docs[i].id \in RootIds("doc")
        /\ \A i \in 1..Len(characters) :
              Dangling(characters[i].folderId) =>
                  characters[i].id \in RootIds("character")

\* C5, as stated: when the folders hold a parent cycle, buildTree does not
\* return.
C5_CycleDiverges ==
    memo = "fresh" /\ CycleFolders # {} => rootNodes = <<Overflow>>

\* C5, amended: when the folders hold a parent cycle (ids unique), buildTree
\* returns, and no folder of the cycle is a node of the tree it returns.
C5_CycleOmitted ==
    memo = "fresh" /\ CycleFolders # {} =>
        /\ rootNodes # <<Overflow>>
        /\ \A id \in CycleFolders : Count("folder", id) = 0

\* Folders f1 and f2 name each other as parent, and a document sits in f1.
C5_Witness ==
    /\ memo = "fresh"
    /\ Len(folders) = 2
    /\ folders[1].parentId = "f2"
    /\ folders[2].parentId = "f1"
    /\ Len(docs) >= 1
    /\ docs[1].folderId = "f1"
    /\ rootNodes = <<>>

\* C6: in every sibling list of the tree buildTree returns, all folders come
\* before all documents and characters, the folders are in ascending name
\* order, the documents in ascending title order and the characters in
\* ascending name order.
C6_SiblingsOrdered ==
    memo = "fresh" => \A list \in SiblingLists : Ordered(list)

\* Folder "B" comes before folder "A" in the input and after it in the tree;
\* its children were given as document "B", document "A", and come out sorted.
C6_Witness ==
    /\ memo = "fresh"
    /\ Len(folders) = 2
    /\ folders[1].name = <<"B">> /\ folders[1].parentId = NULL
    /\ folders[2].name = <<"A">> /\ folders[2].parentId = NULL
    /\ Len(docs) = 2
    /\ docs[1].title = <<"B">> /\ docs[1].folderId = "f1"
    /\ docs[2].title = <<"A">> /\ docs[2].folderId = "f1"
    /\ Len(rootNodes) = 2
    /\ rootNodes[1].id = "f2"
    /\ rootNodes[2].id = "f1"
    /\ rootNodes[2].children[1].id = "d2"

\* C7: for a well-formed forest, the top level holds exactly the rows with a
\* null parent, every folder node's children are exactly the rows naming it,
\* and every row of the input is one node of the tree, and only one.
C7_ForestPreserved ==
    memo = "fresh" /\ WellFormed =>
        /\ rootNodes # <<Overflow>>
        /\ Triples(rootNodes) = RowsUnder(NULL)
        /\ Len(rootNodes) = Cardinality(RowsUnder(NULL))
        /\ \A i \in 1..Len(nodesOf(rootNodes)) :
              nodesOf(rootNodes)[i].kind = "folder" =>
                  /\ Triples(nodesOf(rootNodes)[i].children)
                        = RowsUnder(nodesOf(rootNodes)[i].id)
                  /\ Len(nodesOf(rootNodes)[i].children)
                        = Cardinality(RowsUnder(nodesOf(rootNodes)[i].id))
        /\ \A i \in 1..Len(folders) : Count("folder", folders[i].id) = 1
        /\ \A i \in 1..Len(docs) : Count("doc", docs[i].id) = 1
        /\ \A i \in 1..Len(characters) : Count("character", characters[i].id) = 1

\* Folder f2 inside folder f1, a document in f2 and a character in f1.
C7_Witness ==
    /\ memo = "fresh"
    /\ WellFormed
    /\ Len(folders) = 2
    /\ folders[1].parentId = NULL
    /\ folders[2].parentId = "f1"
    /\ Len(docs) = 1 /\ docs[1].folderId = "f2"
    /\ Len(characters) = 1 /\ characters[1].folderId = "f1"
    /\ Len(rootNodes) = 1
    /\ Len(rootNodes[1].children) = 2

\* --------------------------------------------- properties of the application
CreateCalls == {"newFolder", "newDoc", "newCharacter"}

\* What window.prompt returns when the user cancels it, leaves it empty or
\* types spaces only.
BlankInputs ==
    {raw \in RawInputs :
        raw = NullName \/ \A i \in 1..Len(raw) : raw[i] = " "}

\* C1: in every reachable state, currentDocId or currentCharId is empty.
C1_MutualExclusion == currentDocId = "" \/ currentCharId = ""

\* C2: right after a click selected document x, currentDocId is x and
\* currentCharId is empty; right after a click selected character x,
\* currentCharId is x and currentDocId is empty.
C2_SelectExclusive ==
    /\ event.name = "selectDoc" =>
          currentDocId = event.arg /\ currentCharId = ""
    /\ event.name = "selectChar" =>
          currentCharId = event.arg /\ currentDocId = ""

\* A document was clicked while a character was selected.
C2_Witness ==
    /\ event.name = "selectDoc"
    /\ event.at # ""
    /\ currentDocId = "d1"

\* C3: right after createOrOpen replaced projectPath, both selections are
\* empty and a refresh of the tree for the new path is under way.
C3_SetProjectClears ==
    event.name = "createOrOpen" /\ event.out = "setProject" =>
        /\ currentDocId = ""
        /\ currentCharId = ""
        /\ \E s \in Slots :
              /\ ops[s].h = "refresh"
              /\ ops[s].pc = "listTree"
              /\ ops[s].path = projectPath

\* C8: a run of createFolder, createDoc or createCharacterTab (a step that
\* records the event "create") while projectPath is empty starts no engine
\* call and changes neither the engine's rows, nor the entity lists, nor the
\* selection, nor the expand state: such a step leaves them all unchanged, or
\* it is no run of a create handler.
C8_NoProjectNoCall ==
    [][projectPath = "" /\ event'.name = "create" =>
          \/ UNCHANGED <<ops, db, nextId, folders, docs, characters, rootNodes,
                         currentDocId, currentCharId, expanded>>
          \/ \A h \in CreateHandlers, pc \in CreateCalls, raw \in RawInputs,
                parent \in {NULL} \cup VisibleIds("folder") :
                   ~createRun(h, pc, parent, raw)]_vars

\* A create handler ran without a project.
C8_Witness ==
    /\ event.name = "create"
    /\ event.out = "noProject"
    /\ projectPath = ""

\* C9: a run of a create handler whose prompt is cancelled, left empty or
\* answered with spaces only starts no engine call and changes no state: a
\* step in an open project that records the event "create" leaves the state
\* unchanged, or it is no run with such an answer.
C9_BlankPromptNoCall ==
    [][projectPath # "" /\ event'.name = "create" =>
          \/ UNCHANGED <<projectPath, currentDocId, currentCharId, folders,
                         docs, characters, rootNodes, memo, expanded,
                         confirmOpen, pendingFolderId, searchQ, searchResults,
                         ops, db, nextId>>
          \/ \A h \in CreateHandlers, pc \in CreateCalls, raw \in BlankInputs,
                parent \in {NULL} \cup VisibleIds("folder") :
                   ~createRun(h, pc, parent, raw)]_vars

\* A create handler ran in an open project and stopped at its prompt.
C9_Witness ==
    /\ event.name = "create"
    /\ event.out = "noName"
    /\ projectPath # ""
    /\ <<" ">> \in BlankInputs

\* C10: when createDoc (createCharacterTab) has run to its end with new id n
\* under folder f, currentDocId (currentCharId) is n, the other selection is
\* empty, and f is expanded unless f is null.
C10_CreateSelects ==
    /\ event.name = "createDoc" /\ event.out = "done" =>
          /\ currentDocId = event.arg
          /\ currentCharId = ""
          /\ event.at # NULL => event.at \in expanded
    /\ event.name = "createCharacterTab" /\ event.out = "done" =>
          /\ currentCharId = event.arg
          /\ currentDocId = ""
          /\ event.at # NULL => event.at \in expanded

\* A character was created in folder f1.
C10_Witness ==
    /\ event.name = "createCharacterTab"
    /\ event.out = "done"
    /\ event.at = "f1"
    /\ event.arg = "n1"
    /\ currentCharId = "n1"
    /\ "f1" \in expanded

\* ------------------------------------------ properties of create and delete
\* Slot s holds a call to pc that this step started.
Started(s, pc) ==
    /\ ops'[s].pc = pc
    /\ ops'[s].st = "pending"
    /\ ops'[s] # ops[s]

\* This step is the handler in slot s going on after its call to one of pcs
\* ended in state st.
Resumed(s, pcs, st) ==
    /\ ops[s].pc \in pcs
    /\ ops[s].st = st
    /\ ops'[s] # ops[s]

\* C11: a step starts a deleteFolderRecursive call only as the dialog's
\* confirmation of the folder that is pending, and a folder becomes pending
\* only by a delete request for it; a cancelled dialog starts no call and
\* changes neither the engine's rows, nor the entity lists, nor the
\* selection; after either answer pendingFolderId is null and the dialog is
\* closed.
C11_DeleteNeedsConfirm ==
    [][/\ \A s \in Slots :
             Started(s, "deleteFolderRecursive") =>
                /\ confirmOpen
                /\ pendingFolderId = ops'[s].arg
                /\ event'.name = "onClose"
                /\ event'.out = "confirm"
       /\ pendingFolderId' # pendingFolderId /\ pendingFolderId' # NULL =>
             requestDeleteFolder(pendingFolderId')
       /\ event'.name = "onClose" /\ event'.out = "cancel" =>
             UNCHANGED <<ops, db, folders, docs, characters, rootNodes,
                         currentDocId, currentCharId>>
       /\ event'.name = "onClose" =>
             /\ pendingFolderId' = NULL
             /\ ~confirmOpen']_vars

\* The delete of folder f1 was requested and confirmed: the call is under
\* way, the dialog is closed and no folder is pending.
C11_Witness ==
    /\ \E s \in Slots :
          /\ ops[s].pc = "deleteFolderRecursive"
          /\ ops[s].st = "pending"
          /\ ops[s].arg = "f1"
    /\ ~confirmOpen
    /\ pendingFolderId = NULL

\* C12: right after actuallyDeleteFolder went on from an acknowledged delete
\* and called refresh, currentDocId and currentCharId are both empty.
C12_FolderDeleteClears ==
    event.name = "actuallyDeleteFolder" /\ event.out = "refresh" =>
        /\ currentDocId = ""
        /\ currentCharId = ""
        /\ \E s \in Slots :
              /\ ops[s].h = "actuallyDeleteFolder"
              /\ ops[s].pc = "listTree"
              /\ ops[s].st = "pending"

\* Folder f1 was deleted while character c1, which is not in f1, was
\* selected.
C12_Witness ==
    /\ event.name = "actuallyDeleteFolder"
    /\ event.out = "refresh"
    /\ event.arg = "f1"
    /\ event.at = "c1"
    /\ currentCharId = ""

\* C13: every delete call under way carries the project path and the id of
\* the entity its handler was called with.
C13_DeleteCarriesId ==
    \A s \in Slots :
        ops[s].pc \in DeleteCalls /\ ops[s].st = "pending" =>
            /\ ops[s].path = projectPath
            /\ ops[s].req = ops[s].arg

\* C14: handleDeleteDoc(d) starts the deleteDoc call itself, the dialog not
\* involved; when it goes on from the acknowledged call, currentDocId becomes
\* empty if it was d and stays otherwise, and currentCharId stays.
\* handleDeleteCharacter likewise, on currentCharId.
C14_EntityDeleteFrame ==
    [][/\ \A s \in Slots :
             /\ Started(s, "deleteDoc") =>
                   /\ handleDeleteDoc(ops'[s].arg)
                   /\ UNCHANGED <<confirmOpen, pendingFolderId>>
             /\ Started(s, "deleteCharacter") =>
                   /\ handleDeleteCharacter(ops'[s].arg)
                   /\ UNCHANGED <<confirmOpen, pendingFolderId>>
             /\ Resumed(s, {"deleteDoc"}, "ok") =>
                   /\ currentDocId' = IF currentDocId = ops[s].arg THEN ""
                                      ELSE currentDocId
                   /\ currentCharId' = currentCharId
             /\ Resumed(s, {"deleteCharacter"}, "ok") =>
                   /\ currentCharId' = IF currentCharId = ops[s].arg THEN ""
                                       ELSE currentCharId
                   /\ currentDocId' = currentDocId]_vars

\* A document was deleted while another document was selected.
C14_Witness ==
    /\ event.name = "handleDeleteDoc"
    /\ event.out = "refresh"
    /\ currentDocId # ""
    /\ currentDocId # event.arg

\* C15: neither the start of a create or delete call nor the step in which
\* its handler goes on from the call's rejection changes the entity lists,
\* the selection or the expand state, and the handler then ends without a
\* listTree call.
C15_RejectionLeavesState ==
    [][\A s \in Slots :
          /\ (\E pc \in CreateCalls \cup DeleteCalls : Started(s, pc)) =>
                UNCHANGED <<folders, docs, characters, rootNodes,
                            currentDocId, currentCharId, expanded>>
          /\ Resumed(s, CreateCalls \cup DeleteCalls, "err") =>
                /\ UNCHANGED <<folders, docs, characters, rootNodes,
                               currentDocId, currentCharId, expanded>>
                /\ ops' = [ops EXCEPT ![s] = NoOp]]_vars

\* The deleteDoc call for the selected document was rejected.
C15_Witness ==
    /\ event.name = "handleDeleteDoc"
    /\ event.out = "alert"
    /\ currentDocId = "d1"
    /\ ops = [s \in Slots |-> NoOp]

\* C16: no create or delete handler ends on a rejection of its engine call
\* without showing an alert.
C16_RejectionsReported ==
    event.name \in CreateHandlers \cup DeleteHandlers => event.out # "rejected"

\* ----------------------------------------------- properties of the editor
\* C17: while a document is active and the buffer is not empty, no autosave
\* period passes without a saveDoc call being started: the ticks counted
\* since the last call (or since the document became active with text in
\* the buffer) never exceed the period.
C17_FlushEveryPeriod ==
    (currentDocId # "" /\ editor.md # <<>>) => sinceFlush <= TicksPerPeriod

\* C18: every saveDoc call, from the interval or from blur, carries a buffer
\* that belongs to the document it is written to: the buffer was loaded
\* from that document or typed while that document was the active one.
C18_FlushWritesOwnContent ==
    [][\A s \in Slots :
          Started(s, "saveDoc") => mdOf = ops'[s].arg]_vars

\* C19: a blur of the textarea while a document is active starts, in that
\* very step and whatever the interval's phase, a saveDoc call that carries
\* the whole buffer to the active document, and a blur with no active
\* document starts no call; a blur of a profile field starts a saveCharacter
\* call that carries the six profile fields to the active character.  A
\* call that blur starts is a call for the active entity of its kind.
C19_BlurFlushes ==
    [][/\ onBlur =>
            /\ UNCHANGED <<timer, charTimer, editor, charEditor>>
            /\ IF currentDocId = ""
               THEN UNCHANGED ops
               ELSE \E s \in Slots :
                       /\ Started(s, "saveDoc")
                       /\ ops'[s].req = currentDocId
                       /\ ops'[s].name = editor.md
       /\ charOnBlur =>
            /\ UNCHANGED <<timer, charTimer, editor, charEditor>>
            /\ \E s \in Slots :
                  /\ Started(s, "saveCharacter")
                  /\ ops'[s].req = currentCharId
                  /\ ops'[s].data = charEditor.profile
       /\ \A s \in Slots :
            /\ (Started(s, "saveDoc") /\ ops'[s].h = "onBlur") =>
                  (currentDocId # "" /\ ops'[s].req = currentDocId)
            /\ (Started(s, "saveCharacter") /\ ops'[s].h = "charOnBlur") =>
                  (currentCharId # "" /\ ops'[s].req = currentCharId)]_vars

\* A blur save of a typed document buffer, started in the middle of a
\* period, is under way together with a blur save of a typed profile.
C19_Witness ==
    \E s, u \in Slots :
       /\ ops[s].h = "onBlur"
       /\ ops[s].req = "d1"
       /\ ops[s].name = <<"B">>
       /\ ops[u].h = "charOnBlur"
       /\ ops[u].st = "pending"
       /\ ops[u].req = "c1"
       /\ ops[u].data.age = <<"B">>
       /\ charTimer = 1

\* C20: with an engine that carries out every save, if from some point on
\* document d1 stays active with no load under way and the user types no
\* more, then from some point on the body the engine holds for d1 equals
\* the buffer.
C20_EventuallyPersisted ==
    (/\ <>[](currentDocId = "d1" /\ \A s \in Slots : ops[s].pc # "loadDoc")
     /\ <>[][\A text \in Texts : ~onChange(text)]_vars)
    => <>[](bodies["d1"] = editor.md)

\* Text typed into d1 has replaced the body the engine held, every call has
\* ended, and d1 is still the active document.
C20_Witness ==
    /\ currentDocId = "d1"
    /\ mdOf = "d1"
    /\ editor = [md |-> <<"B">>, lastSaved |-> 1]
    /\ bodies["d1"] = <<"B">>
    /\ \A s \in Slots : ops[s] = NoOp

\* C21: the continuation of a rejected saveDoc or saveCharacter call leaves
\* both buffers, both last-saved stamps, both timers and the selection as they
\* were; a last-saved stamp changes only in the continuation of a save of its
\* own editor that the engine carried out; and an interval that fires with an
\* entity active starts the save of the buffer as it is then.
C21_RejectedSaveKeepsState ==
    [][/\ \A s \in Slots :
             Resumed(s, {"saveDoc", "saveCharacter"}, "err")
             => /\ UNCHANGED <<editor, charEditor, timer, charTimer,
                               currentDocId, currentCharId, bodies, profiles>>
                /\ timer # Unarmed
       /\ editor'.lastSaved # editor.lastSaved
          => \E s \in Slots : Resumed(s, {"saveDoc"}, "ok")
       /\ charEditor'.lastSaved # charEditor.lastSaved
          => \E s \in Slots : Resumed(s, {"saveCharacter"}, "ok")
       /\ (autosave /\ currentDocId # "")
          => \E s \in Slots : /\ Started(s, "saveDoc")
                              /\ ops'[s].req = currentDocId
                              /\ ops'[s].name = editor.md
       /\ (charAutosave /\ currentCharId # "")
          => \E s \in Slots : /\ Started(s, "saveCharacter")
                              /\ ops'[s].req = currentCharId
                              /\ ops'[s].data = charEditor.profile
      ]_vars

\* The save of a typed profile was rejected: the form still shows the typed
\* text, the engine still holds the old profile, nothing was stamped and the
\* interval is still running.
C21_Witness ==
    /\ event = SaveRejected("saveCharacter")
    /\ currentCharId = "c1"
    /\ charEditor.profile.age = <<"B">>
    /\ charEditor.lastSaved = 0
    /\ profiles["c1"].age = <<"A">>
    /\ charTimer \in 0..TicksPerPeriod

\* C22: at every moment each view has at most one armed interval, and its
\* timer ref names it; while no character is selected (CharacterEditor is
\* not mounted) none of its intervals is armed; and every step that changes
\* the active id or the buffer of a mounted view leaves that view with
\* exactly one armed interval, whose period starts anew.
C22_OneTimerPerView ==
    /\ [](/\ armed.doc.live <= 1
          /\ armed.char.live <= 1
          /\ armed.doc.ref = (armed.doc.live = 1)
          /\ armed.char.ref = (armed.char.live = 1)
          /\ currentCharId = "" => armed.char.live = 0)
    /\ [][/\ (currentDocId' # currentDocId \/ editor'.md # editor.md)
             => (timer' = 0 /\ armed'.doc = [live |-> 1, ref |-> TRUE])
          /\ (/\ currentCharId' # ""
              /\ \/ currentCharId' # currentCharId
                 \/ charEditor'.profile # charEditor.profile)
             => (charTimer' = 0 /\ armed'.char = [live |-> 1, ref |-> TRUE])
          ]_vars

\* The character form was typed in and then left for document d1, whose
\* buffer was typed in too: the form's interval is gone and the document
\* view has the one it armed last.
C22_Witness ==
    /\ currentCharId = ""
    /\ currentDocId = "d1"
    /\ charEditor.profile.age = <<"B">>
    /\ editor.md = <<"B">>
    /\ mdOf = "d1"
    /\ armed = [doc |-> [live |-> 1, ref |-> TRUE], char |-> NoInterval]
    /\ charTimer = Unarmed
    /\ timer = 1

\* C23: a step that changes the selection starts no saveDoc and no
\* saveCharacter call and writes no stored body or profile; every save call
\* is started by an interval callback or a blur handler, for the entity that
\* is active when it starts.
C23_SwitchStartsNoSave ==
    [][/\ (currentDocId' # currentDocId \/ currentCharId' # currentCharId)
          => /\ \A s \in Slots : /\ ~Started(s, "saveDoc")
                                 /\ ~Started(s, "saveCharacter")
             /\ UNCHANGED <<bodies, profiles, editor, charEditor>>
       /\ \A s \in Slots :
             /\ Started(s, "saveDoc")
                => /\ ops'[s].h \in {"autosave", "onBlur"}
                   /\ ops'[s].req = currentDocId
                   /\ UNCHANGED currentDocId
             /\ Started(s, "saveCharacter")
                => /\ ops'[s].h \in {"charAutosave", "charOnBlur"}
                   /\ ops'[s].req = currentCharId
                   /\ UNCHANGED currentCharId
      ]_vars

\* Text typed for d1 was never flushed and d1 was left for the character:
\* the engine still holds the old body, no save of it is under way and
\* nothing was stamped.
C23_Witness ==
    /\ currentCharId = "c1"
    /\ currentDocId = ""
    /\ mdOf = "d1"
    /\ editor = [md |-> <<"B">>, lastSaved |-> 0]
    /\ bodies["d1"] = <<"A">>
    /\ \A s \in Slots : ops[s].pc # "saveDoc"

\* The nodes of a forest as (kind, id, label, parent) tuples, parent being
\* the folder whose children list holds the node, or null at the top level.
RECURSIVE placed(_, _)
placed(nodes, parent) ==
    UNION {{<<nodes[i].kind, nodes[i].id, nodeLabel(nodes[i]), parent>>}
           \cup (IF nodes[i].kind = "folder"
                 THEN placed(nodes[i].children, nodes[i].id)
                 ELSE {}) : i \in 1..Len(nodes)}

treeOf(t) == placed(buildTree(t.folders, t.docs, t.characters), NULL)

kindOf(pc) ==
    IF pc = "newFolder" THEN "folder"
    ELSE IF pc = "newDoc" THEN "doc"
    ELSE "character"

\* C24: in the step in which the engine carries out a create call of name x
\* under parent p, the tree built from the project's rows gains exactly one
\* node, of the created kind, with the id the call returns and label x, in
\* the children of folder p (at the top level when p is null), and keeps
\* every node it had where it was; and when the handler's refresh stores
\* the rows listed next, the store's tree holds that node at that place.
C24_CreateRoundTrip ==
    [][\A s \in Slots :
          /\ (/\ ops[s].pc \in {"newFolder", "newDoc", "newCharacter"}
              /\ ops[s].st = "pending"
              /\ ops'[s].st = "ok")
             => LET new == <<kindOf(ops[s].pc), ops'[s].rid, ops[s].name,
                             ops[s].arg>>
                IN /\ treeOf(db'[ops[s].path])
                        = treeOf(db[ops[s].path]) \cup {new}
                   /\ \A n \in treeOf(db[ops[s].path]) : n[2] # new[2]
          /\ (/\ ops[s].h \in CreateHandlers
              /\ Resumed(s, {"listTree"}, "ok"))
             => /\ rootNodes' = buildTree(ops[s].tree.folders, ops[s].tree.docs,
                                          ops[s].tree.characters)
                /\ \E n \in placed(rootNodes', NULL) :
                      /\ n[2] = ops[s].rid
                      /\ n[3] = ops[s].name
                      /\ n[4] = ops[s].arg
      ]_vars

\* A document named A was created from the menu of folder f1 with a padded
\* answer to the prompt, and the store's tree shows it among f1's children.
C24_Witness ==
    /\ event.name = "createDoc"
    /\ event.out = "done"
    /\ <<"doc", "n1", <<"A">>, "f1">> \in placed(rootNodes, NULL)
    /\ <<"doc", "d1", <<"A">>, "f1">> \in placed(rootNodes, NULL)
    /\ Len(docs) = 2

\* C25: when a confirmed folder delete has run to its end (the engine
\* acknowledged the call and the refresh stored the rows listed after it),
\* the store's lists hold neither the folder nor a folder, document or
\* character below it, and nothing is selected.
C25_FolderDeleteRemovesSubtree ==
    (event.name = "actuallyDeleteFolder" /\ event.out = "done") =>
        LET gone == subtree([folders |-> folders], {event.arg})
        IN /\ \A i \in 1..Len(folders) : folders[i].id \notin gone
           /\ \A i \in 1..Len(docs) : docs[i].folderId \notin gone
           /\ \A i \in 1..Len(characters) : characters[i].folderId \notin gone
           /\ currentDocId = ""
           /\ currentCharId = ""

\* C26: when createDoc (createCharacterTab) has run to its end, the id it
\* selected is the id of a row of the store's document (character) list.
C26_SelectedIdInStore ==
    /\ (event.name = "createDoc" /\ event.out = "done")
       => /\ currentDocId = event.arg
          /\ \E i \in 1..Len(docs) : docs[i].id = event.arg
    /\ (event.name = "createCharacterTab" /\ event.out = "done")
       => /\ currentCharId = event.arg
          /\ \E i \in 1..Len(characters) : characters[i].id = event.arg

\* C27: a step that changes the folder, the document or the character list
\* is the continuation of one listTree call that the engine carried out, and
\* after it all three lists are the lists of that call's result and
\* rootNodes is the tree built from them.
C27_ListsReplacedTogether ==
    [][UNCHANGED <<folders, docs, characters>>
       \/ \E s \in Slots :
             /\ Resumed(s, {"listTree"}, "ok")
             /\ folders' = ops[s].tree.folders
             /\ docs' = ops[s].tree.docs
             /\ characters' = ops[s].tree.characters
             /\ rootNodes' = buildTree(folders', docs', characters')
      ]_vars

\* The refresh after a switch from p1 to the empty project p2 has replaced
\* p1's folder, document and character at once.
C27_Witness ==
    /\ event.name = "refresh"
    /\ event.out = "done"
    /\ projectPath = "p2"
    /\ folders = <<>>
    /\ docs = <<>>
    /\ characters = <<>>
    /\ rootNodes = <<>>

\* The expand state e with the flag of folder id inverted.
flip(e, id) == IF id \in e THEN e \ {id} ELSE e \cup {id}

\* C28: no folder is expanded at the start; a toggle of folder f inverts the
\* flag of f, leaves every other flag and the selection as they are, and a
\* second toggle of f would give the expand state back; the expand state
\* changes only in a toggle step or in the step that ends a create, which
\* sets the flag of the parent; a click that selects a row and the
\* continuation of a refresh outside a create leave it unchanged.
C28_ExpandFrame ==
    /\ expanded = {}
    /\ [][/\ \A id \in FolderIdsOf(folders) :
               toggle(id) => /\ expanded' = flip(expanded, id)
                             /\ flip(expanded', id) = expanded
                             /\ UNCHANGED <<currentDocId, currentCharId>>
          /\ expanded' # expanded
             => \/ /\ event'.name = "toggle"
                   /\ \E id \in VisibleIds("folder") :
                         expanded' = flip(expanded, id)
                \/ /\ event'.name \in CreateHandlers
                   /\ event'.out = "done"
                   /\ expanded' = expanded \cup {event'.at}
          /\ ((\E id \in VisibleIds("doc") : onSelectDoc(id))
              \/ (\E id \in VisibleIds("character") : onSelectChar(id)))
             => UNCHANGED expanded
          /\ (\E s \in Slots : Resumed(s, {"listTree"}, "ok")
                                /\ ops[s].h \notin CreateHandlers)
             => UNCHANGED expanded
          ]_vars

\* Folder n1 was created in f1, which opened f1; n1 was toggled open and f1
\* was then toggled shut.
C28_Witness ==
    /\ event.name = "toggle"
    /\ expanded = {"n1"}
    /\ \E i \in 1..Len(folders) :
          folders[i].id = "n1" /\ folders[i].parentId = "f1"

\* C29: a step that changes the selection leaves the entity lists, the
\* tree, the expand state, both editor buffers, both last-saved stamps and
\* everything the engine holds as they were; the only call it starts is the
\* load of the newly selected entity, made by App's load effect for a
\* document and by CharacterEditor's load effect for a character, and it
\* starts that load whenever the selected id is new and not empty.
C29_SelectFrame ==
    [][(currentDocId' # currentDocId \/ currentCharId' # currentCharId)
       => /\ UNCHANGED <<projectPath, folders, docs, characters, rootNodes,
                         expanded, editor, charEditor, bodies, profiles, db,
                         mdOf>>
          /\ \A s \in Slots :
                ops'[s] # ops[s]
                => /\ ops[s] = NoOp
                   /\ ops'[s].st = "pending"
                   /\ \/ /\ ops'[s].h = "App"
                         /\ ops'[s].pc = "loadDoc"
                         /\ ops'[s].req = currentDocId'
                         /\ currentDocId' # currentDocId
                      \/ /\ ops'[s].h = "CharacterEditor"
                         /\ ops'[s].pc = "loadCharacter"
                         /\ ops'[s].req = currentCharId'
                         /\ currentCharId' # currentCharId
          /\ (currentDocId' # currentDocId /\ currentDocId' # "")
             => \E s \in Slots : Started(s, "loadDoc")
          /\ (currentCharId' # currentCharId /\ currentCharId' # "")
             => \E s \in Slots : Started(s, "loadCharacter")
      ]_vars

\* Document d1 was selected while the character form showed a saved edit:
\* the load of d1 is under way, and the form's fields, its stamp and the
\* document buffer are as they were before the click.
C29_Witness ==
    /\ currentDocId = "d1"
    /\ currentCharId = ""
    /\ charEditor.profile.age = <<"B">>
    /\ charEditor.lastSaved = 1
    /\ editor = [md |-> <<>>, lastSaved |-> 0]
    /\ \E s \in Slots : /\ ops[s].h = "App"
                         /\ ops[s].pc = "loadDoc"
                         /\ ops[s].st = "pending"
                         /\ ops[s].req = "d1"

Quiescent == \A s \in Slots : ops[s] = NoOp

\* C31: whenever no handler is awaiting, a non-empty currentDocId is the id
\* of a row of the store's document list and a non-empty currentCharId is
\* the id of a row of its character list.
C31_SelectionInStore ==
    Quiescent =>
        /\ currentDocId # "" => \E i \in 1..Len(docs) : docs[i].id = currentDocId
        /\ currentCharId # "" =>
              \E i \in 1..Len(characters) : characters[i].id = currentCharId

\* The rows of the store's three lists, as a listTree result.
storeTree == [folders |-> folders, docs |-> docs, characters |-> characters]

\* C32: whenever no call is in flight and a project is open, the store's
\* folder, document and character lists are the rows the engine holds for
\* the current project path.
C32_StoreMirrorsEngine ==
    (Quiescent /\ projectPath # "") => storeTree = db[projectPath]

\* C33: when a load stores its body and leaves no other load in flight, and
\* the engine holds the bodies it held at the start (no edit was saved),
\* the buffer is then the body of the document that is selected.
C33_LastLoadIsCurrent ==
    [][\A s \in Slots :
          (/\ Resumed(s, {"loadDoc"}, "ok")
           /\ \A u \in Slots : ops'[u].pc # "loadDoc"
           /\ currentDocId # ""
           /\ bodies = InitialBodies)
          => editor'.md = InitialBodies[currentDocId]]_vars

\* ------------------------------------- reachability of rows in buildTree
\* The parent chain of folder id ends in a null parent after at most fuel
\* steps through folders of the input.
RECURSIVE Rooted(_, _)
Rooted(id, fuel) ==
    \/ ParentOf(folders, id) = NULL
    \/ /\ fuel > 0
       /\ ParentOf(folders, id) \in FolderIdsOf(folders)
       /\ Rooted(ParentOf(folders, id), fuel - 1)

\* The reference ref of a document or character leads to the root.
RootedRef(ref) ==
    \/ ref = NULL
    \/ ref \in FolderIdsOf(folders) /\ Rooted(ref, Len(folders))

\* The (kind, id) pairs of the rows whose chain of references leads to the
\* root.
RootedRows ==
    {<<"folder", folders[i].id>> :
        i \in {j \in 1..Len(folders) : Rooted(folders[j].id, Len(folders))}}
    \cup {<<"doc", docs[i].id>> :
        i \in {j \in 1..Len(docs) : RootedRef(docs[j].folderId)}}
    \cup {<<"character", characters[i].id>> :
        i \in {j \in 1..Len(characters) : RootedRef(characters[j].folderId)}}

\* C34: for folders with unique ids buildTree returns; the nodes of its
\* result are exactly the folders, documents and characters whose chain of
\* parent references reaches a null parent through folders of the input,
\* each of them once; a row whose chain meets a missing folder or a cycle
\* is no node of the result.
C34_ExactlyRootedRows ==
    memo = "fresh" =>
        /\ rootNodes # <<Overflow>>
        /\ {<<nodesOf(rootNodes)[i].kind, nodesOf(rootNodes)[i].id>> :
               i \in 1..Len(nodesOf(rootNodes))} = RootedRows
        /\ Len(nodesOf(rootNodes)) = Cardinality(RootedRows)
        /\ \A i \in 1..Len(folders) :
              Count("folder", folders[i].id)
                 = IF Rooted(folders[i].id, Len(folders)) THEN 1 ELSE 0
        /\ \A i \in 1..Len(docs) :
              Count("doc", docs[i].id)
                 = IF RootedRef(docs[i].folderId) THEN 1 ELSE 0
        /\ \A i \in 1..Len(characters) :
              Count("character", characters[i].id)
                 = IF RootedRef(characters[i].folderId) THEN 1 ELSE 0

\* Folder f1 at the root with document d2 in it; folder f2 names the missing
\* folder f3 as its parent and holds document d1: the tree is f1 with d2,
\* and neither f2 nor d1 is a node of it.
C34_Witness ==
    /\ memo = "fresh"
    /\ Len(folders) = 2
    /\ folders[1].parentId = NULL
    /\ folders[2].parentId = "f3"
    /\ Len(docs) = 2
    /\ docs[1].folderId = "f2"
    /\ docs[2].folderId = "f1"
    /\ Len(rootNodes) = 1
    /\ rootNodes[1].id = "f1"
    /\ Len(rootNodes[1].children) = 1
    /\ rootNodes[1].children[1].id = "d2"
    /\ Len(nodesOf(rootNodes)) = 2

\* ------------------------------------------------ saves and the selection
\* C35: a step that starts a saveDoc call is taken while a document is
\* selected, and the call is for that document; a step in which the
\* character interval or a blur of a profile field starts a saveCharacter
\* call is taken while a character is selected, and the call is for that
\* character.  The document interval, which stays armed in character mode,
\* starts nothing when it fires there.
C35_NoSaveWithoutSelection ==
    [][/\ \A s \in Slots :
             /\ Started(s, "saveDoc")
                => (currentDocId # "" /\ ops'[s].req = currentDocId)
             /\ (Started(s, "saveCharacter")
                 /\ ops'[s].h \in {"charAutosave", "charOnBlur"})
                => (currentCharId # "" /\ ops'[s].req = currentCharId)
       /\ (autosave /\ currentDocId = "") => UNCHANGED ops
      ]_vars

\* Character c1 is shown; the document interval fired one tick ago, in
\* character mode, and no saveDoc call was started or has ever ended; the
\* character interval has just started its save.
C35_Witness ==
    /\ currentCharId = "c1"
    /\ currentDocId = ""
    /\ timer = 1
    /\ charTimer = 0
    /\ editor.lastSaved = 0
    /\ \A s \in Slots : ops[s].pc # "saveDoc"
    /\ \E s \in Slots : /\ ops[s].h = "charAutosave"
                         /\ ops[s].pc = "saveCharacter"
                         /\ ops[s].st = "pending"
                         /\ ops[s].req = "c1"

\* ------------------------------------------------------------------ refresh
\* The slots in which this step started the listTree call of a refresh:
\* createOrOpen's own listTree is no refresh.
RefreshStarts ==
    {s \in Slots : Started(s, "listTree") /\ ops'[s].h # "createOrOpen"}

\* C36: a call of refresh without a project path starts no call and leaves
\* the store, the tree, the selection and the engine as they are; a step
\* that calls refresh with a project path starts one listTree call, for the
\* path the store holds at that moment, and no step starts more than one;
\* the continuation of a rejected listTree leaves the folder, document and
\* character lists and the tree as they were.
C36_RefreshContract ==
    [][/\ (refresh /\ projectPath = "")
          => UNCHANGED <<projectPath, currentDocId, currentCharId, folders,
                         docs, characters, rootNodes, expanded, ops, db,
                         nextId>>
       /\ \A s \in RefreshStarts :
             /\ projectPath' # ""
             /\ ops'[s].path = projectPath'
       /\ Cardinality(RefreshStarts) <= 1
       /\ ((refresh /\ projectPath # "")
           \/ (event'.name \in CreateHandlers /\ event'.out = "refresh"))
          => Cardinality(RefreshStarts) = 1
       /\ \A s \in Slots :
             Resumed(s, {"listTree"}, "err")
             => UNCHANGED <<folders, docs, characters, rootNodes>>
      ]_vars

\* A folder was created in p1 and the create handler's refresh was rejected;
\* a refresh called afterwards was rejected too: the store still shows the
\* one folder it listed before, while the engine holds two.
C36_Witness ==
    /\ event.name = "refresh"
    /\ event.out = "rejected"
    /\ projectPath = "p1"
    /\ Len(folders) = 1
    /\ Len(db["p1"].folders) = 2
    /\ rootNodes = buildTree(folders, docs, characters)

\* ------------------------------------------------------------------- search
\* C37: whenever no search call is in flight, the results shown are empty
\* for an empty query and otherwise the rows the engine returns for the
\* query that state.search.q holds.
C37_ResultsMatchQuery ==
    (\A s \in Slots : ops[s].h # "onSearch")
    => searchResults = IF searchQ = "" THEN <<>>
                       ELSE engineSearch(db[projectPath], searchQ)

\* ------------------------------------------------------------ image import
\* C38: the import that onPickImage starts is made for the character the
\* button was pressed for; when its path is written to the form, that
\* character is the one the form shows; every saveCharacter call whose
\* payload carries an imported path is a call for the character the path
\* was imported for; and a dismissed picker ends the handler with no call
\* started and nothing else changed.
C38_ImageStaysWithCharacter ==
    [][/\ \A s \in Slots :
             /\ Started(s, "importCharacterImage") => ops'[s].req = ops[s].arg
             /\ (Resumed(s, {"importCharacterImage"}, "ok")
                 /\ charEditor'.profile.image # charEditor.profile.image)
                => currentCharId = ops[s].arg
             /\ (Started(s, "saveCharacter") /\ ops'[s].data.image # <<>>)
                => ops'[s].data.image = ImageOf(ops'[s].req)
             /\ afterPickImage(s, NULL)
                => /\ ops' = [ops EXCEPT ![s] = NoOp]
                   /\ UNCHANGED <<treeVars, editorVars>>
      ]_vars

====
